---- MODULE Spec2Model ----
(***************************************************************************)
(* Flip7: the action-driven engine of src/main.py (class Flip7) on top of  *)
(* src/cardGame.py (Card, Deck, Player, Game).                             *)
(*                                                                         *)
(* A card is modelled by its value string (Card.value; the suit is always  *)
(* None).  Deck.addCard(card, copies) appends ONE Card object `copies`     *)
(* times, so every per-object attribute (special, owner) is an attribute   *)
(* of the value.  The deck is a multiset (draws are random.sample followed *)
(* by list.remove), a hand is the list in draw order (getPlayerHandScore   *)
(* and list.remove read that order).                                       *)
(*                                                                         *)
(* Game.log is taken as installed by the program's entry point             *)
(* (CursesDisplay replaces it, display.py:66): it accepts the color=       *)
(* keyword and changes no engine state.                                    *)
(***************************************************************************)
EXTENDS Integers, Sequences, FiniteSets, TLC

VARIABLES
    nrPlayers,            \* Game.nrPlayers
    roundDeck,            \* the cards of newDeck() the rounds are played with
    deck,                 \* Game.deck, value -> number of copies left
    hand,                 \* Player.hand, per player, in draw order
    isDone,               \* Player.isDone
    status,               \* Player.status
    score,                \* Player.score
    owner,                \* Card.owner of the (shared) effect card objects
    effectsToResolve,     \* Flip7.effectsToResolve
    drawnBy,              \* history: who drew the queued cards and the pending one
    pendingEffect,        \* Flip7._pending_effect
    pendingEffectOwner,   \* Flip7._pending_effect_owner
    phase,                \* Game.phase
    turnPlayer,           \* Game.turnPlayer
    activePlayer,         \* Game.activePlayer
    round,                \* Game.round
    gameOver,             \* Game.gameOver
    gameIsDone,           \* the attribute play() sets on the game object
    err,                  \* exception raised by the last engine call
    lastCall,             \* the Action of the last apply_action call
    returned,             \* what the last get_legal_actions call returned
    estimate,             \* what the last estimator call returned
    pc                    \* position of Flip7.play

vars == <<nrPlayers, roundDeck, deck, hand, isDone, status, score, owner,
          effectsToResolve, drawnBy, pendingEffect, pendingEffectOwner, phase,
          turnPlayer, activePlayer, round, gameOver, gameIsDone, err,
          lastCall, returned, estimate, pc>>

-----------------------------------------------------------------------------
(* Bounds of the model *)

\* the constructor's playerNames: the game of Spec has two players, the game
\* of SpecSeven one
playerNames == <<"Eloise", "Jules">>
soloNames == <<"Eloise">>
\* the game of SpecTrio has three players, so that a turn can skip one
trioNames == <<"Eloise", "Jules", "Thibault">>

\* the cards of newDeck() a round is played with: the game of Spec keeps
\* these cards of the deck, the game of SpecSeven those
shortDeck == <<"2", "2", "Freeze", "Freeze", "Flip three", "Flip three",
               "Second chance", "x2">>
sevenDeck == <<"0", "1", "2", "3", "4", "5", "6", "x2">>
\* the cards the game of SpecQueue keeps: all three Freeze cards, so that a
\* chain can leave two of them waiting while a third is drawn
queueDeck == <<"2", "Freeze", "Freeze", "Freeze", "Flip three", "Flip three", "x2">>
\* the cards the game of SpecChance keeps: a player can hold two
\* Second-Chance cards when a duplicate comes
chanceDeck == <<"3", "3", "3", "Second chance", "Second chance", "Flip three", "x2">>
\* the cards the three-player game of SpecTrio keeps
trioDeck == <<"2", "2", "3", "Freeze", "Flip three", "x2">>
\* the cards the one-player game of SpecChain keeps: a forced chain can draw
\* the seventh unique number
chainDeck == <<"0", "1", "2", "3", "4", "5", "6", "Flip three">>

\* the cards of newDeck() the estimators are applied to: the hand of the
\* first player and the deck of SpecProb are any of these cards
probCards == <<"3", "3", "5", "Flip three", "Flip three",
               "Second chance", "Second chance", "Second chance", "x2">>

\* rounds that are played out
MaxRounds == 1
\* Flip7.maxScore as set by the caller (main.py:32 sets 200, main.py:426 shows
\* the caller lowering it)
maxScore == 4

-----------------------------------------------------------------------------
(* Program constants *)

FREEZE == "Freeze"
FLIP_THREE == "Flip three"
SECOND_CHANCE == "Second chance"
TIMES_TWO == "x2"
EFFECTS == {FREEZE, FLIP_THREE}

PHASE_FLIP == "Flip card"
PHASE_EFFECT_CHOOSE == "Choose effect target"

\* ActionType
DRAW == "DRAW"
PASS == "PASS"
CHOOSE_PLAYER == "CHOOSE_PLAYER"
PLAY_CARD == "PLAY_CARD"
RESPOND == "RESPOND"
ActionType == {DRAW, PASS, CHOOSE_PLAYER, PLAY_CARD, RESPOND}

\* Python's None, for a string-valued and for a player-valued slot
None == "None"
NoPlayer == 0 - 1

\* 7 unique number cards end the round of a player, and earn the bonus
FlipSeven == 7
FlipSevenBonus == 15
\* draws of a forced chain
ChainDraws == 3

\* str(i) of the number cards, Card.__init__: index i + 1 holds str(i)
NumberStr == <<"0", "1", "2", "3", "4", "5", "6", "7", "8", "9", "10", "11", "12">>
\* f"+{2 * i}" of the bonus cards: index i holds "+" str(2 i)
BonusStr == <<"+2", "+4", "+6", "+8", "+10">>

Range(s) == {s[i] : i \in 1..Len(s)}
NumberValues == Range(NumberStr)
BonusValues == Range(BonusStr)
CardValues == NumberValues \cup BonusValues \cup {FREEZE, FLIP_THREE, SECOND_CHANCE, TIMES_TWO}

\* Card.special, as newDeck sets it: False on the number cards, True on the rest
special(c) == c \notin NumberValues

\* Card.__int__: int(self.value), called on number and on "+N" cards only
int(c) ==
    IF c \in NumberValues
    THEN (CHOOSE i \in 1..Len(NumberStr) : NumberStr[i] = c) - 1
    ELSE 2 * (CHOOSE i \in 1..Len(BonusStr) : BonusStr[i] = c)

-----------------------------------------------------------------------------
(* Flip7.newDeck *)

Max(a, b) == IF a >= b THEN a ELSE b

\* range(0, 13) and range(1, 6) of newDeck, and the copies of the extra cards
NumberCards == 13
BonusCards == 5
EffectCopies == 3

\* a mutant of newDeck: the card i is added with copies=i, so there is no 0
newDeck_nozero ==
    [c \in CardValues |->
        IF c \in NumberValues
        THEN (IF int(c) < NumberCards THEN int(c) ELSE 0)
        ELSE IF c \in {FREEZE, FLIP_THREE, SECOND_CHANCE} THEN EffectCopies
        ELSE IF c = TIMES_TWO THEN 1
        ELSE (IF int(c) <= 2 * BonusCards THEN 1 ELSE 0)]

\* Flip7.newDeck: value -> number of copies
newDeck ==
    [c \in CardValues |->
        IF c \in NumberValues
        THEN (IF int(c) < NumberCards THEN Max(int(c), 1) ELSE 0)
        ELSE IF c \in {FREEZE, FLIP_THREE, SECOND_CHANCE} THEN EffectCopies
        ELSE IF c = TIMES_TWO THEN 1
        ELSE (IF int(c) <= 2 * BonusCards THEN 1 ELSE 0)]

-----------------------------------------------------------------------------
(* Python lists *)

\* x in lst
In(x, lst) == \E i \in 1..Len(lst) : lst[i] = x

\* lst.count(x)
count(lst, x) == Cardinality({i \in 1..Len(lst) : lst[i] = x})

\* lst.remove(x): the first item equal to x is removed (x is in lst)
remove(lst, x) ==
    LET i == CHOOSE k \in 1..Len(lst) : lst[k] = x /\ \A j \in 1..(k - 1) : lst[j] # x
    IN  SubSeq(lst, 1, i - 1) \o SubSeq(lst, i + 1, Len(lst))

\* Deck.getNormalCards
getNormalCards(cards) == SelectSeq(cards, LAMBDA c : ~special(c))

\* Deck.nrCards of the deck multiset
nrCards(d) ==
    LET RECURSIVE total(_)
        total(S) == IF S = {} THEN 0
                    ELSE LET c == CHOOSE x \in S : TRUE IN d[c] + total(S \ {c})
    IN  total(DOMAIN d)

\* Deck.takeRandomCard: the cards random.sample may return; None[0] fails on
\* an empty deck, which is the result None here
takeRandomCard(d) ==
    IF nrCards(d) = 0 THEN {None} ELSE {c \in DOMAIN d : d[c] > 0}

-----------------------------------------------------------------------------
(* The game object *)

Players == 0..(nrPlayers - 1)

self ==
    [deck |-> deck, hand |-> hand, isDone |-> isDone, status |-> status,
     score |-> score, owner |-> owner, effectsToResolve |-> effectsToResolve,
     drawnBy |-> drawnBy,
     pendingEffect |-> pendingEffect, pendingEffectOwner |-> pendingEffectOwner,
     phase |-> phase, turnPlayer |-> turnPlayer, activePlayer |-> activePlayer,
     round |-> round, gameOver |-> gameOver, gameIsDone |-> gameIsDone,
     err |-> None]

\* the object after a call that mutated it to g
Store(g) ==
    /\ deck' = g.deck
    /\ hand' = g.hand
    /\ isDone' = g.isDone
    /\ status' = g.status
    /\ score' = g.score
    /\ owner' = g.owner
    /\ effectsToResolve' = g.effectsToResolve
    /\ drawnBy' = g.drawnBy
    /\ pendingEffect' = g.pendingEffect
    /\ pendingEffectOwner' = g.pendingEffectOwner
    /\ phase' = g.phase
    /\ turnPlayer' = g.turnPlayer
    /\ activePlayer' = g.activePlayer
    /\ round' = g.round
    /\ gameOver' = g.gameOver
    /\ gameIsDone' = g.gameIsDone
    /\ err' = g.err

\* raise: the exception leaves the call with the object as it is
Raise(g, exception) == [g EXCEPT !.err = exception]

\* Action(type, acting_player, target_player)
Action(type, acting_player, target_player) ==
    [type |-> type, acting_player |-> acting_player, target_player |-> target_player]

-----------------------------------------------------------------------------
(* Game: properties *)

playersNotDone(g) == {p \in DOMAIN g.isDone : ~g.isDone[p]}
nrPlayersStillPlaying(g) == Cardinality(playersNotDone(g))
everyoneIsDone(g) == playersNotDone(g) = {}

-----------------------------------------------------------------------------
(* Flip7: the engine *)

\* Flip7.playerHasMatch(player) with newCard None
playerHasMatch(g, player) ==
    LET onlyNumbersHand == getNormalCards(g.hand[player])
    IN  Len(onlyNumbersHand) # Cardinality(Range(onlyNumbersHand))

\* Flip7.getPlayerHandScore: one pass over the hand in list order
RECURSIVE scoreLoop(_, _)
scoreLoop(cards, sc) ==
    IF cards = <<>> THEN sc
    ELSE LET c == Head(cards)
             added == IF ~special(c) \/ c \in BonusValues THEN sc + int(c) ELSE sc
             timed == IF c = TIMES_TWO THEN added * 2 ELSE added
         IN  scoreLoop(Tail(cards), timed)

getPlayerHandScore(g, player) ==
    IF playerHasMatch(g, player) THEN 0
    ELSE scoreLoop(g.hand[player],
                   IF Len(getNormalCards(g.hand[player])) = FlipSeven
                   THEN FlipSevenBonus ELSE 0)

\* the places of the queue whose card has an owner other than player
notOwnedBy(g, player) ==
    {i \in 1..Len(g.effectsToResolve) : g.owner[g.effectsToResolve[i]] # player}

\* the items of a list at the places of a set, in list order
RECURSIVE itemsAt(_, _, _)
itemsAt(lst, places, i) ==
    IF i > Len(lst) THEN <<>>
    ELSE (IF i \in places THEN <<lst[i]>> ELSE <<>>) \o itemsAt(lst, places, i + 1)

\* a mutant of _end_round_for: the effects the player owns stay in the queue
_end_round_for_keep(g, player) ==
    [g EXCEPT !.isDone[player] = TRUE]

\* Flip7._end_round_for
_end_round_for(g, player) ==
    [g EXCEPT !.isDone[player] = TRUE,
              !.effectsToResolve = SelectSeq(@, LAMBDA c : g.owner[c] # player),
              !.drawnBy.queued = itemsAt(@, notOwnedBy(g, player), 1)]

\* a mutant of _start_next_effect_if_any: the effect that becomes pending is
\* read from the head of the queue but not popped
_start_next_effect_if_any_peek(g) ==
    IF g.effectsToResolve = <<>>
    THEN [g EXCEPT !.pendingEffect = None,
                   !.pendingEffectOwner = NoPlayer,
                   !.drawnBy.pending = NoPlayer,
                   !.phase = PHASE_FLIP,
                   !.activePlayer = g.turnPlayer]
    ELSE LET effect == Head(g.effectsToResolve)
         IN  [g EXCEPT !.drawnBy.pending = Head(g.drawnBy.queued),
                       !.pendingEffect = effect,
                       !.pendingEffectOwner = g.owner[effect],
                       !.phase = PHASE_EFFECT_CHOOSE,
                       !.activePlayer = g.owner[effect]]

\* a mutant of _start_next_effect_if_any: on an empty queue the phase returns
\* to PHASE_FLIP but the pending effect and its owner are not cleared
_start_next_effect_if_any_keep(g) ==
    IF g.effectsToResolve = <<>>
    THEN [g EXCEPT !.phase = PHASE_FLIP,
                   !.activePlayer = g.turnPlayer]
    ELSE LET effect == Head(g.effectsToResolve)
         IN  [g EXCEPT !.effectsToResolve = Tail(@),
                       !.drawnBy = [queued |-> Tail(@.queued), pending |-> Head(@.queued)],
                       !.pendingEffect = effect,
                       !.pendingEffectOwner = g.owner[effect],
                       !.phase = PHASE_EFFECT_CHOOSE,
                       !.activePlayer = g.owner[effect]]

\* Flip7._start_next_effect_if_any
_start_next_effect_if_any(g) ==
    IF g.effectsToResolve = <<>>
    THEN [g EXCEPT !.pendingEffect = None,
                   !.pendingEffectOwner = NoPlayer,
                   !.drawnBy.pending = NoPlayer,
                   !.phase = PHASE_FLIP,
                   !.activePlayer = g.turnPlayer]
    ELSE LET effect == Head(g.effectsToResolve)
         IN  [g EXCEPT !.effectsToResolve = Tail(@),
                       !.drawnBy = [queued |-> Tail(@.queued), pending |-> Head(@.queued)],
                       !.pendingEffect = effect,
                       !.pendingEffectOwner = g.owner[effect],
                       !.phase = PHASE_EFFECT_CHOOSE,
                       !.activePlayer = g.owner[effect]]

\* a mutant of drawCard: the card is peeked, not taken out of the deck
drawCard_peek(g, player, new_card) ==
    [g EXCEPT !.owner = [c \in DOMAIN @ |-> IF c = new_card THEN player ELSE @[c]],
              !.hand[player] = Append(@, new_card)]

\* Player.drawCard, for the card new_card that takeRandomCard returned
drawCard(g, player, new_card) ==
    [g EXCEPT !.deck[new_card] = @ - 1,
              !.owner = [c \in DOMAIN @ |-> IF c = new_card THEN player ELSE @[c]],
              !.hand[player] = Append(@, new_card)]

\* a mutant of _resolve_draw: a match ends the round of the player but the
\* status is not set, and the effect check still runs
_resolve_draw_silent(g, player, new_card, three_turn) ==
    LET matched == playerHasMatch(g, player)
        saved == matched /\ In(SECOND_CHANCE, g.hand[player])
        g1 == IF saved
              THEN [g EXCEPT !.hand[player] = remove(remove(@, SECOND_CHANCE), new_card)]
              ELSE IF matched THEN _end_round_for(g, player)
              ELSE g
    IN  IF ~g1.isDone[player] /\ Len(getNormalCards(g1.hand[player])) = FlipSeven
        THEN _end_round_for(g1, player)
        ELSE IF ~g1.isDone[player] /\ new_card \in EFFECTS
        THEN LET g2 == [g1 EXCEPT !.effectsToResolve = Append(@, new_card),
                                  !.drawnBy.queued = Append(@, player)]
             IN  IF ~three_turn THEN _start_next_effect_if_any(g2) ELSE g2
        ELSE g1

\* a mutant of _resolve_draw: an effect card drawn inside a forced chain
\* starts its resolution at once
_resolve_draw_eager(g, player, new_card, three_turn) ==
    LET matched == playerHasMatch(g, player)
        saved == matched /\ In(SECOND_CHANCE, g.hand[player])
        g1 == IF saved
              THEN [g EXCEPT !.hand[player] = remove(remove(@, SECOND_CHANCE), new_card)]
              ELSE g
    IN  IF matched /\ ~saved
        THEN _end_round_for([g EXCEPT !.status[player] = "Busted"], player)
        ELSE IF ~g1.isDone[player] /\ Len(getNormalCards(g1.hand[player])) = FlipSeven
        THEN _end_round_for(g1, player)
        ELSE IF ~g1.isDone[player] /\ new_card \in EFFECTS
        THEN _start_next_effect_if_any(
                 [g1 EXCEPT !.effectsToResolve = Append(@, new_card),
                            !.drawnBy.queued = Append(@, player)])
        ELSE g1

\* a mutant of _resolve_draw: the Second-Chance card cancels the duplicate
\* but stays in the hand
_resolve_draw_hoard(g, player, new_card, three_turn) ==
    LET matched == playerHasMatch(g, player)
        saved == matched /\ In(SECOND_CHANCE, g.hand[player])
        g1 == IF saved
              THEN [g EXCEPT !.hand[player] = remove(@, new_card)]
              ELSE g
    IN  IF matched /\ ~saved
        THEN _end_round_for([g EXCEPT !.status[player] = "Busted"], player)
        ELSE IF ~g1.isDone[player] /\ Len(getNormalCards(g1.hand[player])) = FlipSeven
        THEN _end_round_for(g1, player)
        ELSE IF ~g1.isDone[player] /\ new_card \in EFFECTS
        THEN LET g2 == [g1 EXCEPT !.effectsToResolve = Append(@, new_card),
                                  !.drawnBy.queued = Append(@, player)]
             IN  IF ~three_turn THEN _start_next_effect_if_any(g2) ELSE g2
        ELSE g1

\* a mutant of _resolve_draw: the Second-Chance card is given up but the
\* duplicate stays in the hand
_resolve_draw_keepdup(g, player, new_card, three_turn) ==
    LET matched == playerHasMatch(g, player)
        saved == matched /\ In(SECOND_CHANCE, g.hand[player])
        g1 == IF saved
              THEN [g EXCEPT !.hand[player] = remove(@, SECOND_CHANCE)]
              ELSE g
    IN  IF matched /\ ~saved
        THEN _end_round_for([g EXCEPT !.status[player] = "Busted"], player)
        ELSE IF ~g1.isDone[player] /\ Len(getNormalCards(g1.hand[player])) = FlipSeven
        THEN _end_round_for(g1, player)
        ELSE IF ~g1.isDone[player] /\ new_card \in EFFECTS
        THEN LET g2 == [g1 EXCEPT !.effectsToResolve = Append(@, new_card),
                                  !.drawnBy.queued = Append(@, player)]
             IN  IF ~three_turn THEN _start_next_effect_if_any(g2) ELSE g2
        ELSE g1

\* Flip7._apply_draw from the match check on (g: the game after drawCard)
_resolve_draw(g, player, new_card, three_turn) ==
    LET matched == playerHasMatch(g, player)
        saved == matched /\ In(SECOND_CHANCE, g.hand[player])
        g1 == IF saved
              THEN [g EXCEPT !.hand[player] = remove(remove(@, SECOND_CHANCE), new_card)]
              ELSE g
    IN  IF matched /\ ~saved
        THEN _end_round_for([g EXCEPT !.status[player] = "Busted"], player)
        ELSE IF ~g1.isDone[player] /\ Len(getNormalCards(g1.hand[player])) = FlipSeven
        THEN _end_round_for(g1, player)
        ELSE IF ~g1.isDone[player] /\ new_card \in EFFECTS
        THEN LET g2 == [g1 EXCEPT !.effectsToResolve = Append(@, new_card),
                                  !.drawnBy.queued = Append(@, player)]
             IN  IF ~three_turn THEN _start_next_effect_if_any(g2) ELSE g2
        ELSE g1

\* a mutant of _apply_draw: on an empty deck the cards of the round that are
\* in no hand are put back into the deck and the call returns
_apply_draw_refill(g, player, new_card, three_turn) ==
    IF g.isDone[player] THEN Raise(g, "AssertionError")
    ELSE IF new_card = None
    THEN [g EXCEPT !.deck = [c \in DOMAIN @ |->
                                roundDeck[c] - Cardinality({<<p, i>> \in
                                    UNION {{p} \X DOMAIN g.hand[p] : p \in DOMAIN g.hand} :
                                    g.hand[p][i] = c})]]
    ELSE _resolve_draw(drawCard(g, player, new_card), player, new_card, three_turn)

\* Flip7._apply_draw; new_card is what takeRandomCard returns
_apply_draw(g, player, new_card, three_turn) ==
    IF g.isDone[player] THEN Raise(g, "AssertionError")
    ELSE IF new_card = None THEN Raise(g, "TypeError")
    ELSE _resolve_draw(drawCard(g, player, new_card), player, new_card, three_turn)

\* the loop of Flip7._apply_flip_three_chain with n draws to go: every game
\* the random draws can leave
RECURSIVE chainLoop(_, _, _)
chainLoop(g, target, n) ==
    IF n = 0 THEN {g}
    ELSE UNION {LET g1 == _apply_draw(g, target, c, TRUE)
                IN  IF g1.err # None \/ g1.isDone[target] THEN {g1}
                    ELSE chainLoop(g1, target, n - 1)
                : c \in takeRandomCard(g.deck)}

\* the loop of a forced chain that does not look at target.isDone
RECURSIVE chainLoop_on(_, _, _)
chainLoop_on(g, target, n) ==
    IF n = 0 THEN {g}
    ELSE UNION {LET g1 == _apply_draw(g, target, c, TRUE)
                IN  IF g1.err # None THEN {g1}
                    ELSE chainLoop_on(g1, target, n - 1)
                : c \in takeRandomCard(g.deck)}

\* a mutant of _apply_flip_three_chain: the three draws are made whether or
\* not one of them ends the round of the target
_apply_flip_three_chain_on(g, target) ==
    {IF g1.err # None THEN g1 ELSE _start_next_effect_if_any(g1)
     : g1 \in chainLoop_on(g, target, ChainDraws)}

\* a mutant of _apply_flip_three_chain: the loop makes one draw less
_apply_flip_three_chain_short(g, target) ==
    {IF g1.err # None THEN g1 ELSE _start_next_effect_if_any(g1)
     : g1 \in chainLoop(g, target, ChainDraws - 1)}

\* Flip7._apply_flip_three_chain
_apply_flip_three_chain(g, target) ==
    {IF g1.err # None THEN g1 ELSE _start_next_effect_if_any(g1)
     : g1 \in chainLoop(g, target, ChainDraws)}

\* the players in index order that satisfy keep: [p for p in self.players if ...]
RECURSIVE playersFrom(_, _, _)
playersFrom(i, n, keep) ==
    IF i >= n THEN <<>>
    ELSE (IF i \in keep THEN <<i>> ELSE <<>>) \o playersFrom(i + 1, n, keep)

\* a mutant of targets: done players are offered as targets too
targets_all(g) == playersFrom(0, Cardinality(DOMAIN g.isDone), DOMAIN g.isDone)

\* the targets of Flip7.get_legal_actions in PHASE_EFFECT_CHOOSE
targets(g) == playersFrom(0, Cardinality(DOMAIN g.isDone), playersNotDone(g))

\* Flip7.get_legal_actions, as the list it returns
get_legal_actions(g, player) ==
    IF \A p \in DOMAIN g.isDone : g.isDone[p] THEN <<>>
    ELSE IF g.isDone[player] THEN <<>>
    ELSE IF g.phase = PHASE_FLIP
    THEN IF player # g.turnPlayer THEN <<>>
         ELSE <<Action(DRAW, player, NoPlayer), Action(PASS, player, NoPlayer)>>
    ELSE IF g.phase = PHASE_EFFECT_CHOOSE
    THEN IF g.pendingEffectOwner = NoPlayer \/ player # g.pendingEffectOwner THEN <<>>
         ELSE [i \in 1..Len(targets(g)) |-> Action(CHOOSE_PLAYER, player, targets(g)[i])]
    ELSE <<>>

\* a mutant of apply_action_flip: an action type that is neither PASS nor DRAW
\* is ignored instead of rejected
apply_action_flip_ignore(g, action) ==
    LET actor == action.acting_player
    IN  IF action.type = PASS
        THEN {_end_round_for([g EXCEPT !.status[actor] = "Passed"], actor)}
        ELSE IF action.type = DRAW
        THEN {_apply_draw(g, actor, c, FALSE) : c \in takeRandomCard(g.deck)}
        ELSE {g}

\* a mutant of apply_action_flip: a player who passes gives the hand up
apply_action_flip_fold(g, action) ==
    LET actor == action.acting_player
    IN  IF action.type = PASS
        THEN {_end_round_for([g EXCEPT !.status[actor] = "Passed",
                                       !.hand[actor] = <<>>], actor)}
        ELSE IF action.type = DRAW
        THEN {_apply_draw(g, actor, c, FALSE) : c \in takeRandomCard(g.deck)}
        ELSE {Raise(g, "ValueError")}

\* a mutant of apply_action_flip: a PASS hands the turn to the next player
\* inside apply_action
apply_action_flip_turn(g, action) ==
    LET actor == action.acting_player
    IN  IF action.type = PASS
        THEN {[_end_round_for([g EXCEPT !.status[actor] = "Passed"], actor)
                  EXCEPT !.turnPlayer = (@ + 1) % Cardinality(DOMAIN g.isDone)]}
        ELSE IF action.type = DRAW
        THEN {_apply_draw(g, actor, c, FALSE) : c \in takeRandomCard(g.deck)}
        ELSE {Raise(g, "ValueError")}

\* a mutant of apply_action_flip: a PASS sets the status but does not end
\* the round of the player
apply_action_flip_stay(g, action) ==
    LET actor == action.acting_player
    IN  IF action.type = PASS
        THEN {[g EXCEPT !.status[actor] = "Passed"]}
        ELSE IF action.type = DRAW
        THEN {_apply_draw(g, actor, c, FALSE) : c \in takeRandomCard(g.deck)}
        ELSE {Raise(g, "ValueError")}

\* Flip7.apply_action, case PHASE_FLIP: every game the call can leave (the
\* draw is random)
apply_action_flip(g, action) ==
    LET actor == action.acting_player
    IN  IF action.type = PASS
        THEN {_end_round_for([g EXCEPT !.status[actor] = "Passed"], actor)}
        ELSE IF action.type = DRAW
        THEN {_apply_draw(g, actor, c, FALSE) : c \in takeRandomCard(g.deck)}
        ELSE {Raise(g, "ValueError")}

\* a mutant of resolve_effect: a Freeze sets the status of the target but does
\* not end the round of the target
resolve_effect_thaw(g, target) ==
    IF g.pendingEffect = FREEZE
    THEN {_start_next_effect_if_any([g EXCEPT !.status[target] = "Frozen"])}
    ELSE IF g.pendingEffect = FLIP_THREE
    THEN _apply_flip_three_chain(g, target)
    ELSE {_start_next_effect_if_any(g)}

\* the resolution of the pending effect on target, Flip7.apply_action
resolve_effect(g, target) ==
    IF g.pendingEffect = FREEZE
    THEN {_start_next_effect_if_any(
              _end_round_for([g EXCEPT !.status[target] = "Frozen"], target))}
    ELSE IF g.pendingEffect = FLIP_THREE
    THEN _apply_flip_three_chain(g, target)
    ELSE {_start_next_effect_if_any(g)}

\* a mutant of apply_action_effect_choose: the pending effect is popped before
\* the target is checked
apply_action_effect_choose_late(g, action) ==
    LET actor == action.acting_player
        target == action.target_player
    IN  IF action.type # CHOOSE_PLAYER THEN {Raise(g, "ValueError")}
        ELSE IF g.pendingEffect = None \/ g.pendingEffectOwner = NoPlayer
        THEN {Raise(g, "RuntimeError")}
        ELSE IF actor # g.pendingEffectOwner THEN {Raise(g, "ValueError")}
        ELSE IF target = NoPlayer
        THEN {Raise(_start_next_effect_if_any(g), "ValueError")}
        ELSE resolve_effect(g, target)

\* Flip7.apply_action, case PHASE_EFFECT_CHOOSE
apply_action_effect_choose(g, action) ==
    LET actor == action.acting_player
        target == action.target_player
    IN  IF action.type # CHOOSE_PLAYER THEN {Raise(g, "ValueError")}
        ELSE IF g.pendingEffect = None \/ g.pendingEffectOwner = NoPlayer
        THEN {Raise(g, "RuntimeError")}
        ELSE IF actor # g.pendingEffectOwner THEN {Raise(g, "ValueError")}
        ELSE IF target = NoPlayer THEN {Raise(g, "ValueError")}
        ELSE resolve_effect(g, target)

\* Flip7.apply_action: match self.phase
apply_action(g, action) ==
    IF g.phase = PHASE_FLIP THEN apply_action_flip(g, action)
    ELSE IF g.phase = PHASE_EFFECT_CHOOSE THEN apply_action_effect_choose(g, action)
    ELSE {Raise(g, "ValueError")}

-----------------------------------------------------------------------------
(* Game: the turn and the round *)

\* a mutant of endTurn: the turn passes on but the active player stays
endTurn_stale(g) ==
    IF everyoneIsDone(g) THEN g
    ELSE LET n == Cardinality(DOMAIN g.isDone)
             RECURSIVE search(_, _)
             search(i, k) ==
                 IF k = 0 THEN g
                 ELSE LET j == (i + 1) % n
                      IN  IF ~g.isDone[j]
                          THEN [g EXCEPT !.turnPlayer = j]
                          ELSE search(j, k - 1)
         IN  search(g.turnPlayer, n)

\* a mutant of endTurn: the turn passes to the next player, done or not
endTurn_next(g) ==
    IF everyoneIsDone(g) THEN g
    ELSE LET j == (g.turnPlayer + 1) % Cardinality(DOMAIN g.isDone)
         IN  [g EXCEPT !.turnPlayer = j, !.activePlayer = j]

\* Game.endTurn
endTurn(g) ==
    IF everyoneIsDone(g) THEN g
    ELSE LET n == Cardinality(DOMAIN g.isDone)
             RECURSIVE search(_, _)
             search(i, k) ==
                 IF k = 0 THEN [g EXCEPT !.activePlayer = g.turnPlayer]
                 ELSE LET j == (i + 1) % n
                      IN  IF ~g.isDone[j]
                          THEN [g EXCEPT !.turnPlayer = j, !.activePlayer = j]
                          ELSE search(j, k - 1)
         IN  search(g.turnPlayer, n)

\* Game.resetDeck: newDeck() builds fresh card objects
resetDeck(g) ==
    [g EXCEPT !.deck = roundDeck, !.owner = [c \in DOMAIN @ |-> NoPlayer]]

\* a mutant of resetPlayers: only the first player is made not done again
resetPlayers_first(g) ==
    [g EXCEPT !.isDone = [p \in DOMAIN @ |-> IF p = 0 THEN FALSE ELSE @[p]],
              !.status = [p \in DOMAIN @ |-> None],
              !.hand = [p \in DOMAIN @ |-> <<>>]]

\* Game.resetPlayers
resetPlayers(g) ==
    [g EXCEPT !.isDone = [p \in DOMAIN @ |-> FALSE],
              !.status = [p \in DOMAIN @ |-> None],
              !.hand = [p \in DOMAIN @ |-> <<>>]]

\* a mutant of endRound: the round counter is incremented before the
\* starting player is computed from it
endRound_counted(g) ==
    LET g1 == [resetPlayers(resetDeck(g)) EXCEPT !.round = @ + 1]
        i == g1.round % Cardinality(DOMAIN g1.isDone)
    IN  [g1 EXCEPT !.turnPlayer = i, !.activePlayer = i]

\* Game.endRound
endRound(g) ==
    LET g1 == resetPlayers(resetDeck(g))
        i == g1.round % Cardinality(DOMAIN g1.isDone)
    IN  [g1 EXCEPT !.turnPlayer = i, !.activePlayer = i, !.round = @ + 1]

\* a mutant of updatePlayerScores: the cards of a busted hand count too
updatePlayerScores_busted(g) ==
    [g EXCEPT !.score = [p \in DOMAIN @ |-> @[p] + scoreLoop(g.hand[p], 0)]]

\* Flip7.updatePlayerScores
updatePlayerScores(g) ==
    [g EXCEPT !.score = [p \in DOMAIN @ |-> @[p] + getPlayerHandScore(g, p)]]

-----------------------------------------------------------------------------
(* Python floats: a value is the exact quotient num/den; den = 0 is the      *)
(* ZeroDivisionError of a division by zero, which every operation passes on  *)

\* the quotient n/d in lowest terms
RECURSIVE gcd(_, _)
gcd(a, b) == IF b = 0 THEN a ELSE gcd(b, a % b)

quotient(n, d) ==
    IF d = 0 THEN [num |-> 0, den |-> 0]
    ELSE LET g == gcd(IF n < 0 THEN 0 - n ELSE n, d)
         IN  [num |-> n \div g, den |-> d \div g]

float(n) == quotient(n, 1)

ZeroDivisionError == quotient(0, 0)

\* a / b on two ints
div(a, b) == quotient(a, b)

\* x + y, x - y, x * y
add(x, y) == quotient(x.num * y.den + y.num * x.den, x.den * y.den)
sub(x, y) == quotient(x.num * y.den - y.num * x.den, x.den * y.den)
mul(x, y) == quotient(x.num * y.num, x.den * y.den)

\* x ** k
RECURSIVE pow(_, _)
pow(x, k) == IF k = 0 THEN float(1) ELSE mul(x, pow(x, k - 1))

\* x == y and x <= y on two values
eq(x, y) == x.den > 0 /\ y.den > 0 /\ x.num * y.den = y.num * x.den
leq(x, y) == x.den > 0 /\ y.den > 0 /\ x.num * y.den <= y.num * x.den

-----------------------------------------------------------------------------
(* Flip7: the estimators *)

\* a mutant of matchProbability: the deck is not tested for being empty
matchProbability_unguarded(g, player, d) ==
    LET hnd == Range(getNormalCards(g.hand[player]))
        matching_in_deck ==
            nrCards([c \in DOMAIN d |-> IF ~special(c) /\ c \in hnd THEN d[c] ELSE 0])
    IN  IF hnd = {} THEN float(0)
        ELSE div(matching_in_deck, nrCards(d))

\* a mutant of matchProbability: the special cards of hand and deck count too
matchProbability_specials(g, player, d) ==
    LET hnd == Range(g.hand[player])
        matching_in_deck ==
            nrCards([c \in DOMAIN d |-> IF c \in hnd THEN d[c] ELSE 0])
    IN  IF hnd = {} \/ nrCards(d) = 0 THEN float(0)
        ELSE div(matching_in_deck, nrCards(d))

\* Flip7.matchProbability(player, deck)
matchProbability(g, player, d) ==
    LET hnd == Range(getNormalCards(g.hand[player]))
        matching_in_deck ==
            nrCards([c \in DOMAIN d |-> IF ~special(c) /\ c \in hnd THEN d[c] ELSE 0])
    IN  IF hnd = {} \/ nrCards(d) = 0 THEN float(0)
        ELSE div(matching_in_deck, nrCards(d))

\* a mutant of matchByFlipThreeProbability: the single-draw probability is
\* taken on the whole deck, the Flip-Three card is not removed
matchByFlipThreeProbability_whole(g, player, d) ==
    LET nrFlipThree == d[FLIP_THREE]
        p_getF3 == div(nrFlipThree, nrCards(d))
        p_single == matchProbability(g, player, d)
        q_single == sub(float(1), p_single)
        L == count(g.hand[player], SECOND_CHANCE)
        p_match_in_three ==
            IF L >= 3 THEN float(0)
            ELSE IF L = 0 THEN sub(float(1), pow(q_single, 3))
            ELSE IF L = 1
            THEN add(mul(mul(float(3), pow(p_single, 2)), q_single), pow(p_single, 3))
            ELSE pow(p_single, 3)
    IN  IF nrFlipThree = 0 THEN float(0)
        ELSE mul(p_getF3, p_match_in_three)

\* a mutant of matchByFlipThreeProbability: the number of Flip-Three cards is
\* not tested for being 0
matchByFlipThreeProbability_unchecked(g, player, d) ==
    LET nrFlipThree == d[FLIP_THREE]
        p_getF3 == div(nrFlipThree, nrCards(d))
        copy == [d EXCEPT ![FLIP_THREE] = Max(@ - 1, 0)]
        p_single == matchProbability(g, player, copy)
        q_single == sub(float(1), p_single)
        L == count(g.hand[player], SECOND_CHANCE)
        p_match_in_three ==
            IF L >= 3 THEN float(0)
            ELSE IF L = 0 THEN sub(float(1), pow(q_single, 3))
            ELSE IF L = 1
            THEN add(mul(mul(float(3), pow(p_single, 2)), q_single), pow(p_single, 3))
            ELSE pow(p_single, 3)
    IN  mul(p_getF3, p_match_in_three)

\* Flip7.matchByFlipThreeProbability(player, deck)
matchByFlipThreeProbability(g, player, d) ==
    LET nrFlipThree == d[FLIP_THREE]
        p_getF3 == div(nrFlipThree, nrCards(d))
        copy == [d EXCEPT ![FLIP_THREE] = @ - 1]
        p_single == matchProbability(g, player, copy)
        q_single == sub(float(1), p_single)
        L == count(g.hand[player], SECOND_CHANCE)
        p_match_in_three ==
            IF L >= 3 THEN float(0)
            ELSE IF L = 0 THEN sub(float(1), pow(q_single, 3))
            ELSE IF L = 1
            THEN add(mul(mul(float(3), pow(p_single, 2)), q_single), pow(p_single, 3))
            ELSE pow(p_single, 3)
    IN  IF nrFlipThree = 0 THEN float(0)
        ELSE mul(p_getF3, p_match_in_three)

\* a mutant of bustProbability: the Flip-Three term is added whatever the
\* number of players still playing
bustProbability_always(g, player, d) ==
    LET matchByFlipThree ==
            IF d[FLIP_THREE] > 0
            THEN matchByFlipThreeProbability(g, player, d)
            ELSE float(0)
    IN  IF In(SECOND_CHANCE, g.hand[player])
        THEN IF nrPlayersStillPlaying(g) # 1 THEN float(0)
             ELSE add(float(0), matchByFlipThree)
        ELSE add(matchProbability(g, player, d), matchByFlipThree)

\* Flip7.bustProbability(player, deck)
bustProbability(g, player, d) ==
    LET matchByFlipThree ==
            IF d[FLIP_THREE] > 0 /\ nrPlayersStillPlaying(g) = 1
            THEN matchByFlipThreeProbability(g, player, d)
            ELSE float(0)
    IN  IF In(SECOND_CHANCE, g.hand[player])
        THEN IF nrPlayersStillPlaying(g) # 1 THEN float(0)
             ELSE add(float(0), matchByFlipThree)
        ELSE add(matchProbability(g, player, d), matchByFlipThree)

-----------------------------------------------------------------------------
(* Flip7.__init__ and the first lines of Flip7.play *)

NoCall == Action(None, NoPlayer, NoPlayer)

\* no effect card is queued or pending
NoDrawer == [queued |-> <<>>, pending |-> NoPlayer]

\* no get_legal_actions call and no estimator call has returned yet
NoList == [player |-> NoPlayer, actions |-> <<>>]
NoEstimate == [function |-> None, player |-> NoPlayer, value |-> float(0)]

\* the loop moves on: what the calls of the last decision point returned is
\* dropped
dropResults == returned' = NoList /\ estimate' = NoEstimate

\* the multiset of a list of cards
deckOf(cards) == [c \in CardValues |-> count(cards, c)]

InitGame(names, cards) ==
    /\ \A c \in CardValues : deckOf(cards)[c] <= newDeck[c]
    /\ nrPlayers = Len(names)
    /\ roundDeck = deckOf(cards)
    /\ deck = deckOf(cards)
    /\ hand = [p \in 0..(Len(names) - 1) |-> <<>>]
    /\ isDone = [p \in 0..(Len(names) - 1) |-> FALSE]
    /\ status = [p \in 0..(Len(names) - 1) |-> None]
    /\ score = [p \in 0..(Len(names) - 1) |-> 0]
    /\ owner = [c \in EFFECTS |-> NoPlayer]
    /\ effectsToResolve = <<>>
    /\ drawnBy = NoDrawer
    /\ pendingEffect = None
    /\ pendingEffectOwner = NoPlayer
    /\ phase = PHASE_FLIP
    /\ turnPlayer = 0
    /\ activePlayer = 0
    /\ round = 1
    /\ gameOver = FALSE
    /\ gameIsDone = FALSE
    /\ err = None
    /\ lastCall = NoCall
    /\ returned = NoList
    /\ estimate = NoEstimate
    /\ pc = "loop"

Init == InitGame(playerNames, shortDeck)

InitSeven == InitGame(soloNames, sevenDeck)

InitQueue == InitGame(playerNames, queueDeck)

InitChain == InitGame(soloNames, chainDeck)

InitTrio == InitGame(trioNames, trioDeck)

InitChance == InitGame(playerNames, chanceDeck)

\* the cards of a list that where puts at the place at, in list order
RECURSIVE cardsAt(_, _, _, _)
cardsAt(cards, where, at, i) ==
    IF i > Len(cards) THEN <<>>
    ELSE (IF where[i] = at THEN <<cards[i]>> ELSE <<>>) \o cardsAt(cards, where, at, i + 1)

\* a decision point of a round in which the first player holds some of the
\* cards, the deck has some of them left (the others are out of the round),
\* the second player holds none; a player with a duplicate is done (busted),
\* a player without number cards has neither a duplicate nor seven of them
InitEstimate(names, cards) ==
    \E where \in [1..Len(cards) -> {"hand", "deck", "out"}] :
        \E done \in [0..(Len(names) - 1) -> BOOLEAN] :
            LET held == cardsAt(cards, where, "hand", 1)
                left == cardsAt(cards, where, "deck", 1)
                normal == getNormalCards(held)
                first == CHOOSE p \in DOMAIN done :
                             ~done[p] /\ \A q \in DOMAIN done : q < p => done[q]
            IN  /\ \A c \in CardValues : deckOf(cards)[c] <= newDeck[c]
                /\ \E p \in DOMAIN done : ~done[p]
                /\ Len(normal) <= Cardinality(Range(normal)) + 1
                /\ Len(normal) # Cardinality(Range(normal)) => done[0]
                /\ nrPlayers = Len(names)
                /\ roundDeck = deckOf(cards)
                /\ deck = deckOf(left)
                /\ hand = [p \in DOMAIN done |-> IF p = 0 THEN held ELSE <<>>]
                /\ isDone = done
                /\ status = [p \in DOMAIN done |->
                                 IF ~done[p] THEN None
                                 ELSE IF p = 0 /\ Len(normal) # Cardinality(Range(normal))
                                 THEN "Busted" ELSE "Passed"]
                /\ score = [p \in DOMAIN done |-> 0]
                /\ owner = [c \in EFFECTS |-> IF In(c, held) THEN 0 ELSE NoPlayer]
                /\ effectsToResolve = <<>>
                /\ drawnBy = NoDrawer
                /\ pendingEffect = None
                /\ pendingEffectOwner = NoPlayer
                /\ phase = PHASE_FLIP
                /\ turnPlayer = first
                /\ activePlayer = first
                /\ round = 1
                /\ gameOver = FALSE
                /\ gameIsDone = FALSE
                /\ err = None
                /\ lastCall = NoCall
                /\ returned = NoList
                /\ estimate = NoEstimate
                /\ pc = "loop"

\* the cards of a deck as a list
RECURSIVE cardsOf(_, _)
cardsOf(d, S) ==
    IF S = {} THEN <<>>
    ELSE LET c == CHOOSE x \in S : TRUE
         IN  [i \in 1..d[c] |-> c] \o cardsOf(d, S \ {c})

\* the game as constructed: the deck is all of newDeck()
InitFresh == InitGame(playerNames, cardsOf(newDeck, CardValues))

InitProb == InitEstimate(playerNames, probCards)

-----------------------------------------------------------------------------
(* Flip7.play: the loop *)

allDone == \A p \in Players : isDone[p]

\* a decision point: the strategy of the active player is asked
DecisionPoint == pc = "loop" /\ ~gameOver /\ ~allDone /\ round <= MaxRounds

\* the strategy returns one of the legal actions and play applies it; a
\* RandomStrategy raises ValueError on an empty list
Decide ==
    /\ DecisionPoint
    /\ LET legal == get_legal_actions(self, activePlayer)
       IN  IF legal = <<>>
           THEN /\ Store(Raise(self, "ValueError"))
                /\ pc' = "crashed"
                /\ UNCHANGED lastCall
           ELSE \E i \in 1..Len(legal) :
                    \E g \in apply_action(self, legal[i]) :
                        /\ Store(g)
                        /\ lastCall' = legal[i]
                        /\ pc' = IF g.err # None THEN "crashed" ELSE "applied"
    /\ UNCHANGED <<nrPlayers, roundDeck>>
    /\ dropResults

\* a mutant of Abort: play does not look at gameOver after choose_action and
\* applies an action before it leaves the loop
Abort_late ==
    /\ DecisionPoint
    /\ LET legal == get_legal_actions(self, activePlayer)
       IN  \E i \in 1..Len(legal) :
               \E g \in apply_action(self, legal[i]) :
                   /\ Store([g EXCEPT !.gameOver = TRUE])
                   /\ lastCall' = legal[i]
                   /\ pc' = "exit"
    /\ UNCHANGED <<nrPlayers, roundDeck>>
    /\ dropResults

\* the decision-maker quits (CursesDisplay.choose_action sets gameOver and
\* returns None); play leaves the loop at "if self.gameOver: break"
Abort ==
    /\ DecisionPoint
    /\ gameOver' = TRUE
    /\ pc' = "exit"
    /\ UNCHANGED <<nrPlayers, roundDeck, deck, hand, isDone, status, score, owner,
                   effectsToResolve, drawnBy, pendingEffect, pendingEffectOwner, phase,
                   turnPlayer, activePlayer, round, gameIsDone, err, lastCall>>
    /\ dropResults

\* after apply_action: endTurn in PHASE_FLIP, nothing in PHASE_EFFECT_CHOOSE
AfterAction ==
    /\ pc = "applied"
    /\ Store(IF phase = PHASE_FLIP THEN endTurn(self) ELSE self)
    /\ pc' = "loop"
    /\ UNCHANGED <<nrPlayers, roundDeck, lastCall>>
    /\ dropResults

\* all players are done: updatePlayerScores
UpdateScores ==
    /\ pc = "loop" /\ ~gameOver /\ allDone /\ round <= MaxRounds
    /\ Store(updatePlayerScores(self))
    /\ pc' = "scored"
    /\ UNCHANGED <<nrPlayers, roundDeck, lastCall>>
    /\ dropResults

\* endRound, then phase and pending effect are reset
EndRound ==
    /\ pc = "scored"
    /\ Store([endRound(self) EXCEPT !.phase = PHASE_FLIP,
                                    !.drawnBy.pending = NoPlayer,
                                    !.pendingEffect = None,
                                    !.pendingEffectOwner = NoPlayer])
    /\ pc' = "reset"
    /\ UNCHANGED <<nrPlayers, roundDeck, lastCall>>
    /\ dropResults

\* the win threshold: play sets self.isDone and leaves the loop
CheckWin ==
    /\ pc = "reset"
    /\ IF \E p \in Players : score[p] >= maxScore
       THEN gameIsDone' = TRUE /\ pc' = "exit"
       ELSE gameIsDone' = gameIsDone /\ pc' = "loop"
    /\ UNCHANGED <<nrPlayers, roundDeck, deck, hand, isDone, status, score, owner,
                   effectsToResolve, drawnBy, pendingEffect, pendingEffectOwner, phase,
                   turnPlayer, activePlayer, round, gameOver, err, lastCall>>
    /\ dropResults

\* a driver calls apply_action at a decision point with any Action, legal or
\* not; the model follows the game no further
Call ==
    /\ DecisionPoint
    /\ \E type \in ActionType, actor \in Players, target \in Players \cup {NoPlayer} :
           \E g \in apply_action(self, Action(type, actor, target)) :
               /\ Store(g)
               /\ lastCall' = Action(type, actor, target)
               /\ pc' = "called"
    /\ UNCHANGED <<nrPlayers, roundDeck>>
    /\ dropResults

\* a mutant of GetLegalActions: the call consumes the pending effect owner
GetLegalActions_consume ==
    /\ DecisionPoint
    /\ \E player \in Players :
           returned' = [player |-> player, actions |-> get_legal_actions(self, player)]
    /\ pendingEffectOwner' = NoPlayer
    /\ UNCHANGED <<nrPlayers, roundDeck, deck, hand, isDone, status, score, owner,
                   effectsToResolve, drawnBy, pendingEffect, phase,
                   turnPlayer, activePlayer, round, gameOver, gameIsDone, err,
                   lastCall, estimate, pc>>

\* get_legal_actions is called for a player while the strategy is asked (by
\* play for the active player, again by CursesDisplay.choose_action and render
\* when they are given no list, by any other caller for any player)
GetLegalActions ==
    /\ DecisionPoint
    /\ \E player \in Players :
           returned' = [player |-> player, actions |-> get_legal_actions(self, player)]
    /\ UNCHANGED <<nrPlayers, roundDeck, deck, hand, isDone, status, score, owner,
                   effectsToResolve, drawnBy, pendingEffect, pendingEffectOwner, phase,
                   turnPlayer, activePlayer, round, gameOver, gameIsDone, err,
                   lastCall, estimate, pc>>

\* the result of an estimator call for a player
Estimate(function, player, value) ==
    /\ estimate' = [function |-> function, player |-> player, value |-> value]
    /\ UNCHANGED <<nrPlayers, roundDeck, deck, hand, isDone, status, score, owner,
                   effectsToResolve, drawnBy, pendingEffect, pendingEffectOwner, phase,
                   turnPlayer, activePlayer, round, gameOver, gameIsDone, err,
                   lastCall, returned, pc>>

\* matchProbability(player, self.deck) is called while the strategy is asked
MatchProbability ==
    /\ DecisionPoint
    /\ \E player \in Players :
           Estimate("matchProbability", player, matchProbability(self, player, deck))

\* a mutant of MatchByFlipThreeProbability: the Flip-Three card is removed
\* from the deck of the game, not from a copy
MatchByFlipThreeProbability_inplace ==
    /\ DecisionPoint
    /\ \E player \in Players :
           estimate' = [function |-> "matchByFlipThreeProbability", player |-> player,
                        value |-> matchByFlipThreeProbability(self, player, deck)]
    /\ deck' = [deck EXCEPT ![FLIP_THREE] = Max(@ - 1, 0)]
    /\ UNCHANGED <<nrPlayers, roundDeck, hand, isDone, status, score, owner,
                   effectsToResolve, drawnBy, pendingEffect, pendingEffectOwner, phase,
                   turnPlayer, activePlayer, round, gameOver, gameIsDone, err,
                   lastCall, returned, pc>>

\* matchByFlipThreeProbability(player, self.deck) is called
MatchByFlipThreeProbability ==
    /\ DecisionPoint
    /\ \E player \in Players :
           Estimate("matchByFlipThreeProbability", player,
                    matchByFlipThreeProbability(self, player, deck))

\* bustProbability(player, self.deck) is called (get_observation calls it
\* for every player)
BustProbability ==
    /\ DecisionPoint
    /\ \E player \in Players :
           Estimate("bustProbability", player, bustProbability(self, player, deck))

\* get_observation is called: with showBustChance it calls bustProbability
\* for every player; the rest of it reads the game into a new Observation
GetObservation ==
    /\ DecisionPoint
    /\ Estimate("get_observation", activePlayer,
                [p \in Players |-> bustProbability(self, p, deck)])

Next ==
    \/ Decide
    \/ Abort
    \/ AfterAction
    \/ UpdateScores
    \/ EndRound
    \/ CheckWin

Spec == Init /\ [][Next]_vars

SpecSeven == InitSeven /\ [][Next]_vars

SpecQueue == InitQueue /\ [][Next]_vars

SpecChain == InitChain /\ [][Next]_vars

\* play is a sequential loop and choose_action returns: no step of the loop
\* waits for ever. A decision point is left by Decide or by Abort; Abort is
\* enabled exactly at the decision points, so its weak fairness says that
\* no decision point lasts for ever, without saying which of the two
\* happens.
SpecLive ==
    /\ Init
    /\ [][Next]_vars
    /\ WF_vars(Abort)
    /\ WF_vars(AfterAction)
    /\ WF_vars(UpdateScores)
    /\ WF_vars(EndRound)
    /\ WF_vars(CheckWin)

SpecTrio == InitTrio /\ [][Next]_vars

SpecChance == InitChance /\ [][Next]_vars

NextApi ==
    \/ Decide
    \/ Abort
    \/ AfterAction
    \/ UpdateScores
    \/ EndRound
    \/ CheckWin
    \/ Call

SpecApi == Init /\ [][NextApi]_vars

SpecChanceApi == InitChance /\ [][NextApi]_vars

NextQuery ==
    \/ Decide
    \/ Abort
    \/ AfterAction
    \/ UpdateScores
    \/ EndRound
    \/ CheckWin
    \/ GetLegalActions

SpecQuery == Init /\ [][NextQuery]_vars

NextProb ==
    \/ MatchProbability
    \/ MatchByFlipThreeProbability
    \/ BustProbability
    \/ GetObservation

SpecProb == InitProb /\ [][NextProb]_vars

\* the first apply_action call on the game as constructed
NextFresh == Call

SpecFresh == InitFresh /\ [][NextFresh]_vars

-----------------------------------------------------------------------------
(* Quantities the properties are stated with *)

\* cards held in the hands of all players
RECURSIVE cardsInHands(_)
cardsInHands(P) ==
    IF P = {} THEN 0
    ELSE LET p == CHOOSE q \in P : TRUE IN Len(hand[p]) + cardsInHands(P \ {p})

\* copies of the value c held in the hands of all players
RECURSIVE copiesInHands(_, _)
copiesInHands(c, P) ==
    IF P = {} THEN 0
    ELSE LET p == CHOOSE q \in P : TRUE
         IN  count(hand[p], c) + copiesInHands(c, P \ {p})

\* Second-Chance cards used so far in the round: no longer in deck or hands
secondChancesUsed ==
    roundDeck[SECOND_CHANCE] - deck[SECOND_CHANCE] - copiesInHands(SECOND_CHANCE, Players)

\* the points of the number and "+N" cards of a hand
RECURSIVE sumPoints(_)
sumPoints(cards) ==
    IF cards = <<>> THEN 0
    ELSE (IF ~special(Head(cards)) \/ Head(cards) \in BonusValues
          THEN int(Head(cards)) ELSE 0) + sumPoints(Tail(cards))

\* the score the scoring rule gives a hand without duplicate: m * (b + sum)
ruleScore(cards) ==
    (IF In(TIMES_TWO, cards) THEN 2 ELSE 1)
    * ((IF Len(getNormalCards(cards)) = FlipSeven THEN FlipSevenBonus ELSE 0)
       + sumPoints(cards))

\* the games in which a draw of a forced chain on target is made, n draws to go
RECURSIVE chainSites(_, _, _)
chainSites(g, target, n) ==
    IF n = 0 THEN {}
    ELSE {g} \cup UNION {LET g1 == _apply_draw(g, target, c, TRUE)
                         IN  IF g1.err # None \/ g1.isDone[target] THEN {}
                             ELSE chainSites(g1, target, n - 1)
                         : c \in takeRandomCard(g.deck)}

\* every draw the play loop can make next: the turn player's draw, and the
\* draws of the forced chain on each target the effect owner may choose
DrawSites ==
    (IF DecisionPoint /\ phase = PHASE_FLIP
     THEN {[g |-> self, player |-> turnPlayer, three_turn |-> FALSE]} ELSE {})
    \cup
    (IF DecisionPoint /\ phase = PHASE_EFFECT_CHOOSE /\ pendingEffect = FLIP_THREE
     THEN UNION {{[g |-> h, player |-> t, three_turn |-> TRUE]
                  : h \in chainSites(self, t, ChainDraws)} : t \in playersNotDone(self)}
     ELSE {})

\* the player entitled to act in the current phase
entitled == IF phase = PHASE_FLIP THEN turnPlayer ELSE pendingEffectOwner

\* an apply_action call left the game object as it was
gameUnchanged ==
    UNCHANGED <<deck, hand, isDone, status, score, owner, effectsToResolve,
                pendingEffect, pendingEffectOwner, phase, turnPlayer, activePlayer,
                round, gameOver, gameIsDone>>

-----------------------------------------------------------------------------
(* C1 *)

\* C1 (as amended): deck size plus the sum of the hand sizes equals the card
\* count of the freshly constructed deck minus two for every Second-Chance
\* card used so far in the round (the Second-Chance card and the duplicate it
\* cancels are discarded); no card value is ever held in more copies than the
\* fresh deck has, and only Second-Chance and number cards ever leave.
C1_ConservationUpToSecondChance ==
    /\ nrCards(deck) + cardsInHands(Players) = nrCards(roundDeck) - 2 * secondChancesUsed
    /\ \A c \in CardValues :
           /\ deck[c] + copiesInHands(c, Players) <= roundDeck[c]
           /\ (special(c) /\ c # SECOND_CHANCE)
                  => deck[c] + copiesInHands(c, Players) = roundDeck[c]

\* a Second-Chance card has been used by a draw
C1_Witness ==
    /\ pc = "applied"
    /\ lastCall.type = DRAW
    /\ secondChancesUsed > 0

\* C1 as stated: deck size plus hand sizes always equals the fresh card count
C1_Original == nrCards(deck) + cardsInHands(Players) = nrCards(roundDeck)

-----------------------------------------------------------------------------
(* C2 *)

\* C2: get_legal_actions(player) is empty when all players are done or player
\* is done; in PHASE_FLIP it is [DRAW, PASS] by player for the turn player and
\* empty for the others; in PHASE_EFFECT_CHOOSE it is one CHOOSE_PLAYER per
\* not-done player (owner included) for the pending effect owner and empty
\* for the others.
C2_LegalActions ==
    \A p \in Players :
        LET legal == get_legal_actions(self, p)
        IN  IF allDone \/ isDone[p] THEN legal = <<>>
            ELSE IF phase = PHASE_FLIP
            THEN IF p = turnPlayer
                 THEN /\ Len(legal) = 2
                      /\ Range(legal) = {Action(DRAW, p, NoPlayer), Action(PASS, p, NoPlayer)}
                 ELSE legal = <<>>
            ELSE /\ phase = PHASE_EFFECT_CHOOSE
                 /\ IF p = pendingEffectOwner
                    THEN /\ Len(legal) = Cardinality({t \in Players : ~isDone[t]})
                         /\ Range(legal) =
                                {Action(CHOOSE_PLAYER, p, t) : t \in {q \in Players : ~isDone[q]}}
                         /\ Action(CHOOSE_PLAYER, p, p) \in Range(legal)
                    ELSE legal = <<>>

\* an effect owner must choose while another player is done
C2_Witness ==
    /\ DecisionPoint
    /\ phase = PHASE_EFFECT_CHOOSE
    /\ \E q \in Players : isDone[q]
    /\ get_legal_actions(self, pendingEffectOwner) # <<>>

-----------------------------------------------------------------------------
(* C3 *)

\* C3: once the game is over (gameOver set by an abort, or the win threshold
\* reached) get_legal_actions is empty for every player.
C3_Claim ==
    (gameOver \/ gameIsDone) => \A p \in Players : get_legal_actions(self, p) = <<>>

-----------------------------------------------------------------------------
(* C4 *)

\* C4: when play has left the loop with a player at maxScore, gameOver is set.
C4_Claim ==
    (pc = "exit" /\ \E p \in Players : score[p] >= maxScore) => gameOver

-----------------------------------------------------------------------------
(* C5 *)

\* C5: at every draw of the play loop (the turn player's, or one of a forced
\* chain), a not-done player without duplicate and without Second-Chance card
\* who draws a number card whose value is in the hand becomes done with status
\* "Busted"; nothing else is checked for that draw (the card stays in the
\* hand, nothing is enqueued, phase and pending effect stay); the hand score
\* is 0, and it is 0 for as long as the status is "Busted".
C5_BustExclusivity ==
    /\ \A site \in DrawSites :
           \A c \in takeRandomCard(site.g.deck) :
               LET g == site.g
                   p == site.player
                   r == _apply_draw(g, p, c, site.three_turn)
               IN  (/\ c # None
                    /\ ~g.isDone[p]
                    /\ ~playerHasMatch(g, p)
                    /\ ~special(c)
                    /\ In(c, g.hand[p])
                    /\ ~In(SECOND_CHANCE, g.hand[p]))
                   => /\ r.err = None
                      /\ r.isDone[p]
                      /\ r.status[p] = "Busted"
                      /\ getPlayerHandScore(r, p) = 0
                      /\ r.hand[p] = Append(g.hand[p], c)
                      /\ r.effectsToResolve =
                             SelectSeq(g.effectsToResolve, LAMBDA e : r.owner[e] # p)
                      /\ r.phase = g.phase
                      /\ r.pendingEffect = g.pendingEffect
                      /\ r.pendingEffectOwner = g.pendingEffectOwner
                      /\ \A q \in Players \ {p} :
                             r.isDone[q] = g.isDone[q] /\ r.status[q] = g.status[q]
    /\ \A p \in Players :
           status[p] = "Busted" => isDone[p] /\ getPlayerHandScore(self, p) = 0

\* the turn player has just drawn a duplicate and is busted
C5_Witness ==
    /\ pc = "applied"
    /\ lastCall.type = DRAW
    /\ status[lastCall.acting_player] = "Busted"
    /\ ~In(SECOND_CHANCE, hand[lastCall.acting_player])

-----------------------------------------------------------------------------
(* C6 *)

\* C6: a player with exactly 7 number cards and no duplicate is done and
\* scores 15 + the points of the number and "+N" cards, doubled with the x2.
C6_Claim ==
    \A p \in Players :
        (Len(getNormalCards(hand[p])) = FlipSeven /\ ~playerHasMatch(self, p))
            => /\ isDone[p]
               /\ getPlayerHandScore(self, p) =
                      (IF In(TIMES_TWO, hand[p]) THEN 2 ELSE 1)
                      * (FlipSevenBonus + sumPoints(hand[p]))

-----------------------------------------------------------------------------
(* C7 *)

\* C7: a hand without duplicate scores m * (b + number points + bonus points),
\* whatever the order of the cards; a hand with a duplicate scores 0.
C7_Claim ==
    \A p \in Players :
        getPlayerHandScore(self, p) =
            IF playerHasMatch(self, p) THEN 0 ELSE ruleScore(hand[p])

-----------------------------------------------------------------------------
(* C8 *)

\* C8: an apply_action call whose acting player is not the player entitled to
\* act in the phase (turnPlayer / pendingEffectOwner) raises and applies
\* nothing.
C8_Claim ==
    [][(pc' = "called" /\ lastCall'.acting_player # entitled)
           => (err' # None /\ gameUnchanged)]_vars

-----------------------------------------------------------------------------
(* C9 *)

\* C9: apply_action raises on every action type other than DRAW and PASS in
\* PHASE_FLIP and other than CHOOSE_PLAYER in PHASE_EFFECT_CHOOSE.
C9_IllegalActionForPhase ==
    [][(/\ pc' = "called"
        /\ \/ phase = PHASE_FLIP /\ lastCall'.type \notin {DRAW, PASS}
           \/ phase = PHASE_EFFECT_CHOOSE /\ lastCall'.type # CHOOSE_PLAYER)
           => err' = "ValueError"]_vars

\* CHOOSE_PLAYER was called in PHASE_FLIP and was rejected
C9_Witness ==
    /\ pc = "called"
    /\ err = "ValueError"
    /\ phase = PHASE_FLIP
    /\ lastCall.type = CHOOSE_PLAYER

-----------------------------------------------------------------------------
(* C10 *)

\* the four rejections of apply_action, for the Action a in the current state
rejection(a) ==
    \/ phase = PHASE_FLIP /\ a.type \notin {DRAW, PASS}
    \/ phase = PHASE_EFFECT_CHOOSE /\ a.type # CHOOSE_PLAYER
    \/ phase = PHASE_EFFECT_CHOOSE /\ a.type = CHOOSE_PLAYER
           /\ (pendingEffect = None \/ pendingEffectOwner = NoPlayer)
    \/ phase = PHASE_EFFECT_CHOOSE /\ a.type = CHOOSE_PLAYER
           /\ a.acting_player # pendingEffectOwner
    \/ phase = PHASE_EFFECT_CHOOSE /\ a.type = CHOOSE_PLAYER
           /\ a.target_player = NoPlayer

\* C10: an apply_action call of one of the four rejected kinds raises and
\* leaves deck, hands, flags, effect queue, pending effect, phase, turnPlayer
\* and activePlayer as they were; no other call raises ValueError/RuntimeError.
C10_RejectBeforeMutation ==
    [][pc' = "called"
           => /\ rejection(lastCall') <=> err' \in {"ValueError", "RuntimeError"}
              /\ rejection(lastCall') => gameUnchanged]_vars

\* CHOOSE_PLAYER without target was rejected, the pending effect is still there
C10_Witness ==
    /\ pc = "called"
    /\ err = "ValueError"
    /\ phase = PHASE_EFFECT_CHOOSE
    /\ lastCall.type = CHOOSE_PLAYER
    /\ lastCall.acting_player = pendingEffectOwner
    /\ lastCall.target_player = NoPlayer
    /\ pendingEffect # None

-----------------------------------------------------------------------------
(* C11 *)

\* the last card of a hand
Last(cards) == cards[Len(cards)]

\* C11: when the turn player, in PHASE_FLIP (not inside a forced chain), draws
\* a Freeze or Flip-Three card and the draw does not end the round of the
\* player, then after apply_action the phase is PHASE_EFFECT_CHOOSE, the
\* pending effect is the drawn card, pendingEffectOwner and activePlayer are
\* the drawer, the effect queue is empty, and isDone and status of the drawer
\* are as they were.
C11_TurnDrawOfEffect ==
    [][(/\ pc = "loop" /\ pc' = "applied"
        /\ phase = PHASE_FLIP
        /\ lastCall'.type = DRAW
        /\ lastCall'.acting_player = turnPlayer
        /\ Len(hand'[turnPlayer]) = Len(hand[turnPlayer]) + 1
        /\ Last(hand'[turnPlayer]) \in {FREEZE, FLIP_THREE}
        /\ ~isDone'[turnPlayer])
           => /\ phase' = PHASE_EFFECT_CHOOSE
              /\ pendingEffect' = Last(hand'[turnPlayer])
              /\ pendingEffectOwner' = turnPlayer
              /\ activePlayer' = turnPlayer
              /\ effectsToResolve' = <<>>
              /\ isDone'[turnPlayer] = isDone[turnPlayer]
              /\ status'[turnPlayer] = status[turnPlayer]]_vars

\* the turn player has just drawn a Flip-Three card and must choose a target
C11_Witness ==
    /\ pc = "applied"
    /\ lastCall.type = DRAW
    /\ lastCall.acting_player = turnPlayer
    /\ hand[turnPlayer] # <<>>
    /\ Last(hand[turnPlayer]) = FLIP_THREE
    /\ phase = PHASE_EFFECT_CHOOSE
    /\ pendingEffect = FLIP_THREE
    /\ pendingEffectOwner = turnPlayer

-----------------------------------------------------------------------------
(* C12 *)

\* C12: resolving a pending Freeze with CHOOSE_PLAYER on target T marks T done
\* with status "Frozen" and leaves every hand (and the deck) as it was; the
\* round of T having ended (its queued effects are purged), the queue is
\* advanced: if it is empty the pending effect is cleared and the phase is
\* PHASE_FLIP with activePlayer = turnPlayer, otherwise its first effect
\* becomes pending, owned by the player who drew it.
C12_FreezeResolution ==
    [][(/\ pc = "loop" /\ pc' = "applied"
        /\ phase = PHASE_EFFECT_CHOOSE
        /\ pendingEffect = FREEZE
        /\ lastCall'.type = CHOOSE_PLAYER)
           => LET T == lastCall'.target_player
                  queue == SelectSeq(effectsToResolve, LAMBDA c : owner[c] # T)
              IN  /\ isDone' = [isDone EXCEPT ![T] = TRUE]
                  /\ status' = [status EXCEPT ![T] = "Frozen"]
                  /\ hand' = hand
                  /\ deck' = deck
                  /\ turnPlayer' = turnPlayer
                  /\ IF queue = <<>>
                     THEN /\ pendingEffect' = None
                          /\ pendingEffectOwner' = NoPlayer
                          /\ effectsToResolve' = <<>>
                          /\ phase' = PHASE_FLIP
                          /\ activePlayer' = turnPlayer
                     ELSE /\ pendingEffect' = Head(queue)
                          /\ pendingEffectOwner' = owner[Head(queue)]
                          /\ effectsToResolve' = Tail(queue)
                          /\ phase' = PHASE_EFFECT_CHOOSE
                          /\ activePlayer' = owner[Head(queue)]]_vars

\* a Freeze has just been resolved on the target of the last action, and the
\* next queued effect has become pending
C12_Witness ==
    /\ pc = "applied"
    /\ lastCall.type = CHOOSE_PLAYER
    /\ status[lastCall.target_player] = "Frozen"
    /\ phase = PHASE_EFFECT_CHOOSE
    /\ pendingEffect # None

-----------------------------------------------------------------------------
(* C13 *)

\* C13: at every decision point of the play loop (not all players done) the
\* activePlayer is not done and get_legal_actions(activePlayer) is not empty,
\* so no Strategy is handed an empty list; whenever the phase is
\* PHASE_EFFECT_CHOOSE there is a pendingEffectOwner, it is not done, and at
\* least one CHOOSE_PLAYER target exists.
C13_NeverEmptyLegalActions ==
    /\ DecisionPoint
           => /\ ~isDone[activePlayer]
              /\ get_legal_actions(self, activePlayer) # <<>>
    /\ phase = PHASE_EFFECT_CHOOSE
           => /\ pendingEffectOwner \in Players
              /\ ~isDone[pendingEffectOwner]
              /\ targets(self) # <<>>
    /\ ~(pc = "crashed" /\ err = "ValueError")

\* an effect owner other than the turn player must choose a target while the
\* turn player is already done
C13_Witness ==
    /\ DecisionPoint
    /\ phase = PHASE_EFFECT_CHOOSE
    /\ activePlayer # turnPlayer
    /\ isDone[turnPlayer]
    /\ Len(get_legal_actions(self, activePlayer)) = 1

-----------------------------------------------------------------------------
(* C14 *)

\* C14: when a decision-maker sets gameOver during choose_action, play leaves
\* the loop at once: the step that sets the flag is taken at a decision point,
\* applies no action and changes nothing of deck, hands, scores, flags,
\* effect queue, pending effect, phase, turn or round; and once gameOver is
\* set no further step is taken.
C14_AbortExitsCleanly ==
    [][/\ ~gameOver
       /\ (gameOver'
              => (/\ DecisionPoint
                  /\ pc' = "exit"
                  /\ UNCHANGED <<deck, hand, isDone, status, score, owner,
                                 effectsToResolve, pendingEffect, pendingEffectOwner,
                                 phase, turnPlayer, activePlayer, round, gameIsDone,
                                 err, lastCall>>))]_vars

\* the game was aborted by an effect owner asked for a target: the pending
\* effect is still there
C14_Witness ==
    /\ gameOver
    /\ pc = "exit"
    /\ phase = PHASE_EFFECT_CHOOSE
    /\ pendingEffect = FREEZE
    /\ hand[pendingEffectOwner] # <<>>

-----------------------------------------------------------------------------
(* C15 *)

-----------------------------------------------------------------------------
(* C16 *)

\* C16: for every hand, deck and number of players still playing, no
\* estimator divides by zero (the empty deck and the deck of a single
\* Flip-Three card included), 0 <= bustProbability(player, deck) <= 1, and
\* the direct-match term plus the Flip-Three term is at most 1.
C16_ProbabilityBounds ==
    \A player \in Players :
        LET direct == matchProbability(self, player, deck)
            flip == matchByFlipThreeProbability(self, player, deck)
            bust == bustProbability(self, player, deck)
        IN  /\ direct # ZeroDivisionError
            /\ flip # ZeroDivisionError
            /\ bust # ZeroDivisionError
            /\ leq(float(0), direct)
            /\ leq(float(0), flip)
            /\ leq(add(direct, flip), float(1))
            /\ leq(float(0), bust)
            /\ leq(bust, float(1))

\* bustProbability has returned 1 as the sum of two positive terms: the deck
\* is one Flip-Three card and cards that match the hand of the only player
\* still playing
C16_Witness ==
    /\ estimate.function = "bustProbability"
    /\ estimate.value = float(1)
    /\ deck[FLIP_THREE] = 1
    /\ nrCards(deck) > 1
    /\ matchProbability(self, estimate.player, deck).num > 0
    /\ matchByFlipThreeProbability(self, estimate.player, deck).num > 0

-----------------------------------------------------------------------------
(* C17 *)

\* the ratio of C18 for the player and a deck d: (number of number cards of d
\* whose value is in the hand) / (size of d), 0 when the hand has no number
\* card or d is empty
directRatio(player, d) ==
    LET H == {c \in NumberValues : In(c, hand[player])}
        N == nrCards(d)
    IN  IF H = {} \/ N = 0 THEN float(0)
        ELSE quotient(nrCards([c \in H |-> d[c]]), N)

\* the Flip-Three term of bustProbability: included only when exactly one
\* player is still playing and the deck holds a Flip-Three card
flipThreeTerm(player) ==
    IF nrPlayersStillPlaying(self) = 1 /\ deck[FLIP_THREE] >= 1
    THEN matchByFlipThreeProbability(self, player, deck)
    ELSE float(0)

\* C17 (as amended): bustProbability(player, deck) is the direct term plus
\* the Flip-Three term; the Flip-Three term is included only when exactly one
\* player is still playing and the deck holds a Flip-Three card; the direct
\* term is 0 for every holder of a Second-Chance card, the only player still
\* playing included, and the ratio of C18 for every other player.
C17_BustProbability ==
    \A player \in Players :
        bustProbability(self, player, deck) =
            add(IF In(SECOND_CHANCE, hand[player]) THEN float(0)
                ELSE directRatio(player, deck),
                flipThreeTerm(player))

\* bustProbability has returned the Flip-Three term alone, not 0, for the
\* only player still playing, who holds a Second-Chance card and a number
\* card that the deck can match
C17_Witness ==
    /\ estimate.function = "bustProbability"
    /\ nrPlayersStillPlaying(self) = 1
    /\ In(SECOND_CHANCE, hand[estimate.player])
    /\ directRatio(estimate.player, deck).num > 0
    /\ estimate.value.num > 0
    /\ estimate.value = flipThreeTerm(estimate.player)

\* C17 as stated: the direct term is 0 for a Second-Chance holder only when
\* more than one player is still playing, and the ratio of C18 otherwise
C17_Original ==
    \A player \in Players :
        bustProbability(self, player, deck) =
            add(IF In(SECOND_CHANCE, hand[player]) /\ nrPlayersStillPlaying(self) > 1
                THEN float(0)
                ELSE directRatio(player, deck),
                flipThreeTerm(player))

-----------------------------------------------------------------------------
(* C18 *)

\* C18: matchProbability(player, deck) is (number of number cards in the deck
\* whose value is among the number cards of the hand) / (deck size); it is 0
\* when the hand has no number card or the deck is empty; the special cards
\* of hand and deck do not count.
C18_DirectMatch ==
    \A player \in Players :
        /\ matchProbability(self, player, deck) = directRatio(player, deck)
        /\ (getNormalCards(hand[player]) = <<>> \/ nrCards(deck) = 0)
               => matchProbability(self, player, deck) = float(0)

\* matchProbability has returned a value strictly between 0 and 1 for a
\* player who holds a Flip-Three card while the deck holds another
C18_Witness ==
    /\ estimate.function = "matchProbability"
    /\ In(FLIP_THREE, hand[estimate.player])
    /\ deck[FLIP_THREE] > 0
    /\ estimate.value.num > 0
    /\ estimate.value.num < estimate.value.den

-----------------------------------------------------------------------------
(* C19 *)

\* T_L(p) as the claim writes it, q = 1 - p
T(L, p) ==
    LET q == sub(float(1), p)
    IN  IF L = 0 THEN sub(float(1), pow(q, 3))
        ELSE IF L = 1 THEN add(mul(float(3), mul(pow(p, 2), q)), pow(p, 3))
        ELSE IF L = 2 THEN pow(p, 3)
        ELSE float(0)

\* P(X >= k) for X ~ Binomial(3, p): the sum of C(3,j) p^j q^(3-j), j = k..3
RECURSIVE upperTail(_, _)
upperTail(p, k) ==
    IF k > 3 THEN float(0)
    ELSE add(mul(float(IF k \in {1, 2} THEN 3 ELSE 1),
                 mul(pow(p, k), pow(sub(float(1), p), 3 - k))),
             upperTail(p, k + 1))

\* C19: for a deck of N cards with f >= 1 Flip-Three cards,
\* matchByFlipThreeProbability(player, deck) = (f/N) * T_L(p), where p is the
\* ratio of C18 on the deck with one Flip-Three card removed, L the number
\* of Second-Chance cards in the hand, T_0 = 1 - q^3, T_1 = 3p^2q + p^3,
\* T_2 = p^3, T_L = 0 for L >= 3; T_L(p) is P(X >= L+1) for X ~ Binomial(3,p).
C19_FlipThreeFormula ==
    \A player \in Players :
        LET f == deck[FLIP_THREE]
            N == nrCards(deck)
            p == directRatio(player, [deck EXCEPT ![FLIP_THREE] = @ - 1])
            L == count(hand[player], SECOND_CHANCE)
        IN  f >= 1
                => /\ matchByFlipThreeProbability(self, player, deck)
                          = mul(quotient(f, N), T(L, p))
                   /\ T(L, p) = upperTail(p, L + 1)

\* matchByFlipThreeProbability has returned a positive value for a player
\* with one Second-Chance card: two matches in the three draws are needed
C19_Witness ==
    /\ estimate.function = "matchByFlipThreeProbability"
    /\ count(hand[estimate.player], SECOND_CHANCE) = 1
    /\ deck[FLIP_THREE] = 2
    /\ estimate.value.num > 0
    /\ estimate.value.num < estimate.value.den

-----------------------------------------------------------------------------
(* C20 *)

\* C20: for every hand, when the deck holds no Flip-Three card (the empty
\* deck included) matchByFlipThreeProbability(player, deck) returns 0.
C20_ZeroFlipThree ==
    \A player \in Players :
        deck[FLIP_THREE] = 0
            => matchByFlipThreeProbability(self, player, deck) = float(0)

\* matchByFlipThreeProbability has returned 0 on the empty deck for a player
\* who holds a number card
C20_Witness ==
    /\ estimate.function = "matchByFlipThreeProbability"
    /\ nrCards(deck) = 0
    /\ getNormalCards(hand[estimate.player]) # <<>>
    /\ estimate.value = float(0)

-----------------------------------------------------------------------------
(* C21 *)

\* C21: a call of matchProbability, matchByFlipThreeProbability or
\* bustProbability, directly or through get_observation, leaves the deck of
\* the game, every hand, the effect queue, the pending effect and all flags
\* and scores of the players as they were: the Flip-Three card is removed
\* from a copy of the deck only.
C21_EstimatorsPure ==
    [][estimate' # estimate
           => /\ gameUnchanged
              /\ UNCHANGED <<nrPlayers, roundDeck, err, lastCall, returned, pc>>]_vars

\* get_observation has computed a positive Flip-Three term for the only
\* player still playing, and both Flip-Three cards are still in the deck
C21_Witness ==
    /\ estimate.function = "get_observation"
    /\ nrPlayersStillPlaying(self) = 1
    /\ deck[FLIP_THREE] = 2
    /\ \E p \in Players :
           /\ ~isDone[p]
           /\ estimate.value[p] = matchByFlipThreeProbability(self, p, deck)
           /\ estimate.value[p].num > 0

-----------------------------------------------------------------------------
(* C22 *)

\* the cards of the round: those in the deck and those in the hands
cardsOfRound == [c \in CardValues |-> deck[c] + copiesInHands(c, Players)]

\* the number of number cards among the cards of the round
normalCards == nrCards([c \in NumberValues |-> cardsOfRound[c]])

\* the number cards are the values 0..12, the value i in max(i,1) copies
multiplicities ==
    /\ {int(c) : c \in {x \in NumberValues : cardsOfRound[x] > 0}} = 0..12
    /\ \A c \in NumberValues : cardsOfRound[c] = Max(int(c), 1)

\* C22 (as amended): the freshly constructed deck holds the non-special
\* values 0..12 with multiplicity max(i,1) each, 79 number cards in all.
C22_FreshDeck == multiplicities /\ normalCards = 79

\* the first card drawn from the fresh deck is one of the twelve 12s
C22_Witness ==
    /\ pc = "called"
    /\ lastCall.type = DRAW
    /\ hand[lastCall.acting_player] = <<"12">>
    /\ deck["12"] = 11
    /\ nrCards(deck) = 93

\* C22 as stated: the multiplicities max(i,1) make 63 number cards
C22_Original == multiplicities /\ normalCards = 63

-----------------------------------------------------------------------------
(* C23 *)

\* C23: after every step, the owner of the pending effect is the player who
\* drew that very card; and no queued effect card of a player who is still
\* not done leaves the queue in the step other than by becoming the pending
\* effect (a queued effect is purged only when the player who drew it
\* becomes done).
C23_Claim ==
    [][/\ pendingEffect' # None => pendingEffectOwner' = drawnBy'.pending
       /\ \A t \in Players :
              ~isDone'[t]
                  => count(drawnBy.queued, t)
                         <= count(drawnBy'.queued, t)
                            + (IF pendingEffect' # None /\ drawnBy'.pending = t
                               THEN 1 ELSE 0)]_vars

-----------------------------------------------------------------------------
(* C24 *)

\* C24: there is exactly one turn player at all times, and at every decision
\* point: in PHASE_EFFECT_CHOOSE an effect is pending and the active player
\* is its owner; in PHASE_FLIP the active player is the turn player.
C24_DecisionPoint ==
    /\ turnPlayer \in Players
    /\ DecisionPoint =>
           /\ phase = PHASE_EFFECT_CHOOSE =>
                  /\ pendingEffect # None
                  /\ pendingEffectOwner \in Players
                  /\ activePlayer = pendingEffectOwner
           /\ phase = PHASE_FLIP => activePlayer = turnPlayer

\* a decision point at which the owner of the pending effect, not the turn
\* player, is asked
C24_Witness ==
    /\ DecisionPoint
    /\ phase = PHASE_EFFECT_CHOOSE
    /\ pendingEffect # None
    /\ activePlayer = pendingEffectOwner
    /\ activePlayer # turnPlayer

-----------------------------------------------------------------------------
(* C25 *)

\* C25: after every apply_action the effect queue holds only Freeze and
\* Flip-Three cards whose owner, the player who drew them, is not done; and
\* in the step in which a player becomes done no queued effect that player
\* drew stays in the queue or becomes the pending effect.
C25_Claim ==
    [][/\ pc' = "applied" =>
              \A i \in 1..Len(effectsToResolve') :
                  /\ effectsToResolve'[i] \in {FREEZE, FLIP_THREE}
                  /\ ~isDone'[drawnBy'.queued[i]]
       /\ \A t \in Players :
              ~isDone[t] /\ isDone'[t]
                  => /\ count(drawnBy'.queued, t) = 0
                     /\ pendingEffect' # None => drawnBy'.pending # t]_vars

-----------------------------------------------------------------------------
(* C26 *)

\* C26: at every decision point in PHASE_FLIP the effect queue is empty and
\* neither a pending effect nor a pending owner is set; and a step that takes
\* the phase from PHASE_EFFECT_CHOOSE to PHASE_FLIP leaves the queue empty.
C26_FlipMeansNoEffects ==
    [][/\ DecisionPoint' /\ phase' = PHASE_FLIP =>
              /\ effectsToResolve' = <<>>
              /\ pendingEffect' = None
              /\ pendingEffectOwner' = NoPlayer
       /\ phase = PHASE_EFFECT_CHOOSE /\ phase' = PHASE_FLIP =>
              effectsToResolve' = <<>>]_vars

\* a decision point in PHASE_FLIP that follows the resolution of an effect
C26_Witness ==
    /\ DecisionPoint
    /\ phase = PHASE_FLIP
    /\ lastCall.type = CHOOSE_PLAYER
    /\ effectsToResolve = <<>>
    /\ pendingEffect = None
    /\ pendingEffectOwner = NoPlayer

-----------------------------------------------------------------------------
(* C27 *)

\* all but the last item of a list
Front(cards) == SubSeq(cards, 1, Len(cards) - 1)

\* the last card of the hand is the one that ended the round: a number card
\* that made the first duplicate (bust) or the seventh unique number
endedByLastCard(cards, st) ==
    /\ cards # <<>>
    /\ ~special(Last(cards))
    /\ Len(getNormalCards(Front(cards))) = Cardinality(Range(getNormalCards(Front(cards))))
    /\ Len(getNormalCards(Front(cards))) < FlipSeven
    /\ IF st = "Busted"
       THEN In(Last(cards), Front(cards))
       ELSE /\ ~In(Last(cards), Front(cards))
            /\ Len(getNormalCards(cards)) = FlipSeven

\* C27: a CHOOSE_PLAYER call that resolves a pending Flip-Three on target T
\* and returns makes T draw at most 3 cards, exactly 3 if T is not done
\* afterwards, and if T is done the last card T drew is the one that ended
\* T's round (bust or seven unique numbers); after the chain either an effect
\* is pending for its owner in PHASE_EFFECT_CHOOSE, or the queue is empty,
\* nothing is pending and the phase is PHASE_FLIP with the turn player active.
C27_ForcedChain ==
    [][pendingEffect = FLIP_THREE /\ pc = "loop" /\ pc' = "applied"
           => LET target == lastCall'.target_player
                  drawn == nrCards(deck) - nrCards(deck')
              IN  /\ lastCall'.type = CHOOSE_PLAYER
                  /\ drawn \in 1..ChainDraws
                  /\ ~isDone'[target] => drawn = ChainDraws
                  /\ isDone'[target] =>
                         /\ status'[target] \in {"Busted", None}
                         /\ endedByLastCard(hand'[target], status'[target])
                  /\ \A p \in Players \ {target} : hand'[p] = hand[p]
                  /\ IF pendingEffect' # None
                     THEN /\ phase' = PHASE_EFFECT_CHOOSE
                          /\ activePlayer' = pendingEffectOwner'
                     ELSE /\ effectsToResolve' = <<>>
                          /\ pendingEffectOwner' = NoPlayer
                          /\ phase' = PHASE_FLIP
                          /\ activePlayer' = turnPlayer']_vars

\* a forced chain has stopped after its second draw, which busted the target
C27_Witness ==
    /\ pc = "applied"
    /\ lastCall = Action(CHOOSE_PLAYER, 0, 1)
    /\ hand[0] = <<FLIP_THREE>>
    /\ hand[1] = <<"2", "2">>
    /\ status[1] = "Busted"
    /\ nrCards(deck) = nrCards(roundDeck) - 3
    /\ phase = PHASE_FLIP

-----------------------------------------------------------------------------
(* C28 *)

\* the effect cards of a hand, in the order they were drawn
effectCards(cards) == SelectSeq(cards, LAMBDA c : c \in EFFECTS)

\* the games a forced chain on target passes through and ends in, before the
\* queue is looked at again
chainGames(target) ==
    chainSites(self, target, ChainDraws) \cup chainLoop(self, target, ChainDraws)

\* C28: while a forced chain runs, the phase, the pending effect and its
\* owner stay as they are and no effect is resolved on another player, the
\* effect cards the target draws being appended to the queue; and every
\* CHOOSE_PLAYER call that returns takes exactly the head of the queue (what
\* was queued before, then the effect cards the target drew in draw order,
\* without the cards purged because the target is done) as the next pending
\* effect: one effect per call, first in first out.
C28_ChainDefers ==
    [][/\ DecisionPoint /\ phase = PHASE_EFFECT_CHOOSE /\ pendingEffect = FLIP_THREE =>
              \A target \in playersNotDone(self) :
                  \A g \in chainGames(target) :
                      /\ g.phase = phase
                      /\ g.pendingEffect = pendingEffect
                      /\ g.pendingEffectOwner = pendingEffectOwner
                      /\ g.activePlayer = activePlayer
                      /\ \A p \in Players \ {target} :
                             /\ g.isDone[p] = isDone[p]
                             /\ g.status[p] = status[p]
                             /\ g.hand[p] = hand[p]
                      /\ ~g.isDone[target] /\ g.err = None =>
                             g.effectsToResolve
                                 = effectsToResolve
                                   \o SubSeq(effectCards(g.hand[target]),
                                             Len(effectCards(hand[target])) + 1,
                                             Len(effectCards(g.hand[target])))
       /\ pc = "loop" /\ pc' = "applied" /\ lastCall'.type = CHOOSE_PLAYER =>
              LET target == lastCall'.target_player
                  drew == SubSeq(effectCards(hand'[target]),
                                 Len(effectCards(hand[target])) + 1,
                                 Len(effectCards(hand'[target])))
                  queued == IF isDone'[target]
                            THEN SelectSeq(effectsToResolve \o drew,
                                           LAMBDA c : owner'[c] # target)
                            ELSE effectsToResolve \o drew
              IN  IF queued = <<>>
                  THEN pendingEffect' = None /\ effectsToResolve' = <<>>
                  ELSE /\ pendingEffect' = Head(queued)
                       /\ effectsToResolve' = Tail(queued)
                       /\ phase' = PHASE_EFFECT_CHOOSE]_vars

\* a forced chain in which the target drew Freeze and then Flip three has
\* completed: the Freeze is pending, the Flip three waits
C28_Witness ==
    /\ pc = "applied"
    /\ lastCall = Action(CHOOSE_PLAYER, 0, 1)
    /\ hand[0] = <<FLIP_THREE>>
    /\ hand[1] = <<FREEZE, FLIP_THREE, "2">>
    /\ pendingEffect = FREEZE
    /\ pendingEffectOwner = 1
    /\ effectsToResolve = <<FLIP_THREE>>

-----------------------------------------------------------------------------
(* C29 *)

\* C29: at every draw of the play loop (the turn player's, or one of a forced
\* chain), a not-done player without duplicate who holds at least one
\* Second-Chance card and draws a number card whose value is in the hand
\* loses exactly one Second-Chance card and one copy of that value and
\* nothing else; the player stays not done with the status unchanged, and the
\* set of number values in the hand is what it was before the draw.
C29_SecondChance ==
    \A site \in DrawSites :
        \A c \in takeRandomCard(site.g.deck) :
            LET g == site.g
                p == site.player
                r == _apply_draw(g, p, c, site.three_turn)
            IN  (/\ c # None
                 /\ ~g.isDone[p]
                 /\ ~playerHasMatch(g, p)
                 /\ ~special(c)
                 /\ In(c, g.hand[p])
                 /\ In(SECOND_CHANCE, g.hand[p]))
                => /\ r.err = None
                   /\ ~r.isDone[p]
                   /\ r.status[p] = g.status[p]
                   /\ count(r.hand[p], SECOND_CHANCE)
                          = count(g.hand[p], SECOND_CHANCE) - 1
                   /\ count(r.hand[p], c) = count(g.hand[p], c)
                   /\ count(Append(g.hand[p], c), c) - count(r.hand[p], c) = 1
                   /\ \A x \in CardValues \ {SECOND_CHANCE, c} :
                          count(r.hand[p], x) = count(g.hand[p], x)
                   /\ Len(r.hand[p]) = Len(g.hand[p]) - 1
                   /\ Range(getNormalCards(r.hand[p])) = Range(getNormalCards(g.hand[p]))
                   /\ ~playerHasMatch(r, p)
                   /\ r.deck = [g.deck EXCEPT ![c] = @ - 1]

\* the turn player held both Second-Chance cards and a 3, has drawn another
\* 3 and is left with one Second-Chance card and one 3, still playing
C29_Witness ==
    /\ pc = "applied"
    /\ lastCall.type = DRAW
    /\ LET p == lastCall.acting_player
       IN  /\ ~isDone[p]
           /\ status[p] = None
           /\ count(hand[p], SECOND_CHANCE) = 1
           /\ count(hand[p], "3") = 1
           /\ deck[SECOND_CHANCE] = 0
           /\ copiesInHands(SECOND_CHANCE, Players \ {p}) = 0
           /\ deck["3"] + copiesInHands("3", Players) = 2

-----------------------------------------------------------------------------
(* C30 *)

\* C30: an apply_action call with a PASS action in PHASE_FLIP sets the
\* actor's status to "Passed" and isDone to true, removes the queued effects
\* the actor owns, and changes nothing else: no card leaves the deck, every
\* hand, the phase, the pending effect, the turn and the active player, the
\* scores and every other player's isDone and status are as before.
C30_PassFrame ==
    [][(/\ pc = "loop"
        /\ pc' \in {"applied", "called"}
        /\ phase = PHASE_FLIP
        /\ lastCall'.type = PASS)
           => LET actor == lastCall'.acting_player
              IN  /\ status' = [status EXCEPT ![actor] = "Passed"]
                  /\ isDone' = [isDone EXCEPT ![actor] = TRUE]
                  /\ effectsToResolve'
                         = SelectSeq(effectsToResolve, LAMBDA c : owner[c] # actor)
                  /\ UNCHANGED <<nrPlayers, roundDeck, deck, hand, score, owner,
                                 pendingEffect, pendingEffectOwner, phase,
                                 turnPlayer, activePlayer, round, gameOver,
                                 gameIsDone, err>>]_vars

\* the turn player has passed with cards in the hand while the other player
\* is still playing
C30_Witness ==
    /\ pc = "applied"
    /\ lastCall.type = PASS
    /\ lastCall.acting_player = turnPlayer
    /\ status[turnPlayer] = "Passed"
    /\ isDone[turnPlayer]
    /\ hand[turnPlayer] # <<>>
    /\ \E p \in Players : ~isDone[p] /\ hand[p] # <<>>
    /\ phase = PHASE_FLIP

-----------------------------------------------------------------------------
(* C31 *)

\* the places after the turn player, in increasing index order with
\* wrap-around: 1 is the next player, nrPlayers the turn player again
seat(d) == (turnPlayer + d) % nrPlayers

\* C31: the step of the play loop that follows an applied action advances
\* the turn, if the phase is PHASE_FLIP and somebody is still playing, to the
\* first not-done player after the turn player in increasing index order
\* with wrap-around (the turn player again if nobody else is playing), and
\* makes that player the active player; in PHASE_EFFECT_CHOOSE it leaves the
\* turn player alone. No other step but the round reset changes the turn
\* player.
C31_TurnAdvance ==
    [][/\ (pc = "applied" /\ pc' = "loop") =>
              IF phase = PHASE_FLIP /\ ~allDone
              THEN \E d \in 1..nrPlayers :
                       /\ ~isDone[seat(d)]
                       /\ \A e \in 1..(d - 1) : isDone[seat(e)]
                       /\ turnPlayer' = seat(d)
                       /\ activePlayer' = seat(d)
              ELSE turnPlayer' = turnPlayer
       /\ turnPlayer' # turnPlayer =>
              \/ pc = "applied" /\ pc' = "loop" /\ phase = PHASE_FLIP
              \/ pc = "scored" /\ pc' = "reset"]_vars

\* the first player has acted, the second is done and was skipped: it is the
\* turn of the third
C31_Witness ==
    /\ pc = "loop"
    /\ nrPlayers = 3
    /\ lastCall.acting_player = 0
    /\ lastCall.type = DRAW
    /\ ~isDone[0]
    /\ isDone[1]
    /\ ~isDone[2]
    /\ phase = PHASE_FLIP
    /\ turnPlayer = 2
    /\ activePlayer = 2

-----------------------------------------------------------------------------
(* C32 *)

\* C32: a step that makes a done player not done is the round reset, is
\* taken with every player done, and leaves every player not done; no other
\* step, and no apply_action call of any caller, makes a done player not
\* done.
C32_DoneMonotonic ==
    [][(\E p \in Players : isDone[p] /\ ~isDone'[p])
           => /\ pc = "scored"
              /\ pc' = "reset"
              /\ \A q \in Players : isDone[q]
              /\ \A q \in Players : ~isDone'[q]]_vars

\* the round reset has made the players of the first round not done again
C32_Witness ==
    /\ pc = "reset"
    /\ round = 2
    /\ \A q \in Players : ~isDone[q] /\ hand[q] = <<>> /\ status[q] = None
    /\ \E q \in Players : score[q] > 0

-----------------------------------------------------------------------------
(* C33 *)

\* C33: no step lowers a score; a step that changes a score is the scoring
\* step of the play loop, taken with every player done; that step adds to
\* each player's score exactly that player's hand score, which is 0 for a
\* busted player and for an empty hand; the round counter moves on right
\* after it, so a round is scored once; no apply_action call changes a score.
C33_ScoreMonotonic ==
    [][/\ \A p \in Players : score'[p] >= score[p]
       /\ score' # score => pc = "loop" /\ pc' = "scored" /\ allDone
       /\ pc' \in {"applied", "called", "crashed"} => score' = score
       /\ (pc = "loop" /\ pc' = "scored") =>
              /\ round' = round
              /\ \A p \in Players :
                     /\ score'[p] = score[p] + getPlayerHandScore(self, p)
                     /\ status[p] = "Busted" => score'[p] = score[p]
                     /\ hand[p] = <<>> => score'[p] = score[p]
       /\ pc = "scored" => pc' = "reset" /\ round' = round + 1]_vars

\* a round has been scored: the busted player got nothing for the cards in
\* the hand, the player who passed with an empty hand got nothing
C33_Witness ==
    /\ pc = "scored"
    /\ \E p, q \in Players :
           /\ status[p] = "Busted" /\ sumPoints(hand[p]) > 0 /\ score[p] = 0
           /\ status[q] = "Passed" /\ hand[q] = <<>> /\ score[q] = 0

-----------------------------------------------------------------------------
(* C34 *)

\* C34: the round reset that ends round r, and the step that starts the new
\* round after it, leave the deck as newly constructed, every hand empty,
\* every player not done and without status, the phase PHASE_FLIP with no
\* pending effect and an empty queue, the turn player and the active player
\* players[r mod playerCount], and the round counter r + 1.
C34_RoundReset ==
    [][(\/ pc = "scored" /\ pc' = "reset"
        \/ pc = "reset" /\ pc' = "loop")
           => /\ round' = (IF pc = "scored" THEN round + 1 ELSE round)
              /\ deck' = roundDeck
              /\ \A c \in EFFECTS : owner'[c] = NoPlayer
              /\ \A p \in Players :
                     hand'[p] = <<>> /\ ~isDone'[p] /\ status'[p] = None
              /\ phase' = PHASE_FLIP
              /\ pendingEffect' = None
              /\ pendingEffectOwner' = NoPlayer
              /\ effectsToResolve' = <<>>
              /\ turnPlayer' = (round' - 1) % nrPlayers
              /\ activePlayer' = turnPlayer']_vars

\* the second round starts: it is the turn of the second player
C34_Witness ==
    /\ pc = "loop"
    /\ round = 2
    /\ ~gameIsDone
    /\ deck = roundDeck
    /\ \A p \in Players : hand[p] = <<>> /\ ~isDone[p] /\ status[p] = None
    /\ turnPlayer = 1
    /\ activePlayer = 1
    /\ lastCall # NoCall

-----------------------------------------------------------------------------
(* C35 *)

\* somebody has reached the win threshold
won == \E p \in Players : score[p] >= maxScore

\* C35: at a round boundary the scores are added first, the win threshold is
\* checked next, and the deck, the hands, the status flags and the round
\* counter are reset only after that check, that is only if nobody has
\* reached maxScore; and once somebody has, no strategy is asked again.
C35_Claim ==
    [][/\ (pc = "loop" /\ pc' = "scored") =>
              /\ round' = round
              /\ hand' = hand /\ isDone' = isDone /\ status' = status /\ deck' = deck
       /\ (round' # round \/ (hand' # hand /\ \A p \in Players : hand'[p] = <<>>))
              => ~won
       /\ won' => ~DecisionPoint']_vars

-----------------------------------------------------------------------------
(* C36 *)

-----------------------------------------------------------------------------
(* C37 *)

\* C37: in the play loop no draw is made for a done player: the assertion
\* of _apply_draw never fails, and every draw the loop can make next, the
\* draws of a forced chain included, is made for a player who is not done;
\* and until the round reset no step changes the hand or the status of a
\* done player.
C37_DoneIsFrozen ==
    [][/\ err' # "AssertionError"
       /\ \A site \in DrawSites : ~site.g.isDone[site.player]
       /\ \A p \in Players :
              isDone[p] /\ pc # "scored"
                  => hand'[p] = hand[p] /\ status'[p] = status[p] /\ isDone'[p]]_vars

\* a player has drawn a card while the other player, busted by the second
\* draw of a forced chain, is done
C37_Witness ==
    /\ pc = "applied"
    /\ lastCall.type = DRAW
    /\ \E p \in Players \ {lastCall.acting_player} :
           /\ isDone[p]
           /\ status[p] = "Busted"
           /\ FLIP_THREE \notin Range(hand[p])
           /\ Len(hand[p]) = ChainDraws - 1
    /\ FLIP_THREE \in Range(hand[lastCall.acting_player])

-----------------------------------------------------------------------------
(* C38 *)

\* C38: no apply_action call, whether it returns or raises, changes the turn
\* player, the round counter, a score or the gameOver flag; the turn player
\* changes only in the endTurn step and in the round reset, the round counter
\* only in the round reset, a score only in the scoring step, and gameOver
\* only when the decision-maker aborts.
C38_LoopOwnsTurnRoundScore ==
    [][/\ pc = "loop" /\ pc' \in {"applied", "called", "crashed"}
           => UNCHANGED <<turnPlayer, round, score, gameOver>>
       /\ turnPlayer' # turnPlayer
           => \/ pc = "applied" /\ pc' = "loop"
              \/ pc = "scored" /\ pc' = "reset"
       /\ round' # round => pc = "scored" /\ pc' = "reset"
       /\ score' # score => pc = "loop" /\ pc' = "scored"
       /\ gameOver' # gameOver => pc = "loop" /\ pc' = "exit" /\ gameOver']_vars

\* the turn player has been frozen by an effect and is still the turn
\* player when apply_action returns
C38_Witness ==
    /\ pc = "applied"
    /\ lastCall.type = CHOOSE_PLAYER
    /\ lastCall.target_player = turnPlayer
    /\ status[turnPlayer] = "Frozen"
    /\ isDone[turnPlayer]
    /\ phase = PHASE_FLIP
    /\ \E p \in Players : ~isDone[p]

-----------------------------------------------------------------------------
(* C39 *)

\* the players still in the round
playing == Cardinality({p \in Players : ~isDone[p]})

\* C39: every apply_action call that returns takes at least one card from
\* the deck or ends the round of at least one player (resolving a pending
\* effect does one or the other), and never gives a card back or a player a
\* round back; so from every decision point the play loop reaches, whatever
\* legal actions are chosen, the scoring of the round, unless the deck runs
\* out (the call raises) or the decision-maker aborts.
C39_RoundTerminates ==
    /\ [][(pc = "loop" /\ pc' = "applied")
              => /\ nrCards(deck') <= nrCards(deck)
                 /\ playing' <= playing
                 /\ nrCards(deck') < nrCards(deck) \/ playing' < playing]_vars
    /\ DecisionPoint ~> (pc \in {"scored", "crashed", "exit"})

\* a round has been played to its end and scored with cards left in the deck
C39_Witness ==
    /\ pc = "scored"
    /\ allDone
    /\ nrCards(deck) > 0
    /\ \E p \in Players : Len(hand[p]) >= 2

-----------------------------------------------------------------------------
(* C40 *)

\* C40: an apply_action call with a DRAW action in PHASE_FLIP on an empty
\* deck raises an error and leaves the deck, every hand, the effect queue,
\* the pending effect, the phase and every isDone and status flag as they
\* were; and within a round no step puts a card into the deck.
C40_DrawOnEmptyDeck ==
    [][/\ (/\ pc = "loop"
           /\ pc' \in {"applied", "called", "crashed"}
           /\ phase = PHASE_FLIP
           /\ lastCall'.type = DRAW
           /\ nrCards(deck) = 0)
              => /\ err' \in {"TypeError", "AssertionError"}
                 /\ isDone[lastCall'.acting_player] <=> err' = "AssertionError"
                 /\ pc' # "applied"
                 /\ gameUnchanged
       /\ pc # "scored" => \A c \in CardValues : deck'[c] <= deck[c]]_vars

\* the play loop has asked the turn player with the deck used up, the
\* player chose DRAW, and the call raised TypeError
C40_Witness ==
    /\ pc = "crashed"
    /\ err = "TypeError"
    /\ lastCall.type = DRAW
    /\ lastCall.acting_player = turnPlayer
    /\ ~isDone[turnPlayer]
    /\ phase = PHASE_FLIP
    /\ pendingEffect = None
    /\ nrCards(deck) = 0

====
